---- MODULE Spec2Model ----
(***************************************************************************)
(* LinkCloud (Concept Network Cloud): the Express + better-sqlite3 server  *)
(* of server.js.  Strings are sequences of UTF-16 code units, so that      *)
(* trim(), toLowerCase(), the `<` comparison of buildEdgeKey and the "::"  *)
(* delimiter are computed as the JavaScript computes them.                 *)
(***************************************************************************)
EXTENDS Integers, Sequences, FiniteSets, TLC

VARIABLES
    sessions,        \* table sessions: the set of session codes (PRIMARY KEY code)
    edges,           \* table edges: rows, UNIQUE(session_code, edge_key)
    session_edges,   \* table session_edges: rows, UNIQUE(session_id, session_code, edge_key)
    res,             \* the HTTP response written by the last handler
    emitted,         \* the graph:update emission made by the last handler ({} when none)
    req,             \* the request the last handler served
    inflight,        \* submit requests between two statements (step-wise specifications only)
    probe,           \* arguments and result of the last canonicalizer evaluation (SpecKey only)
    client,          \* a browser running the client script: state, activeView, fixed positions
    sockets          \* the Socket.IO connections: rooms, and the events in flight both ways

vars ==
    <<sessions, edges, session_edges, res, emitted, req, inflight, probe, client, sockets>>

db == <<sessions, edges, session_edges>>

(***************************************************************************)
(* Bounds                                                                  *)
(***************************************************************************)
\* submit requests that may be between two statements at once (SpecConc)
MaxInflight == 2

\* longest concept text given to the canonicalizer (SpecKey)
MaxLen == 2

\* most edges of a snapshot handed to the client script (SpecView)
MaxEdges == 3

\* most graph:update events in flight to a consumer (SpecPush, SpecLive)
MaxSent == 1

\* most events of the browser the server has not handled yet (SpecLive)
MaxEvents == 2

\* most responses the client script awaits at once (SpecLive)
MaxPending == 1

(***************************************************************************)
(* String primitives of the JavaScript runtime                             *)
(***************************************************************************)
Range(s) == {s[i] : i \in 1..Len(s)}

\* the WhiteSpace and LineTerminator code units String.prototype.trim strips
WhiteSpace == {9, 10, 11, 12, 13, 32, 160}

LowerChar(c) == IF c \in 65..90 THEN c + 32 ELSE c

toLowerCase(s) == [i \in 1..Len(s) |-> LowerChar(s[i])]

RECURSIVE trimStart(_)
trimStart(s) ==
    IF s # <<>> /\ s[1] \in WhiteSpace THEN trimStart(Tail(s)) ELSE s

RECURSIVE trimEnd(_)
trimEnd(s) ==
    IF s # <<>> /\ s[Len(s)] \in WhiteSpace
    THEN trimEnd(SubSeq(s, 1, Len(s) - 1))
    ELSE s

trim(s) == trimEnd(trimStart(s))

\* the JavaScript relational operator a < b on two strings (code-unit order):
\* the first differing code unit decides, a proper prefix is smaller
RECURSIVE StrLessAt(_, _, _)
StrLessAt(a, b, i) ==
    IF i > Len(a) THEN i <= Len(b)
    ELSE IF i > Len(b) THEN FALSE
    ELSE IF a[i] = b[i] THEN StrLessAt(a, b, i + 1)
    ELSE a[i] < b[i]

StrLess(a, b) == StrLessAt(a, b, 1)

(***************************************************************************)
(* Literals of server.js                                                   *)
(***************************************************************************)
\* 'demo-room'
DEFAULT_SESSION_CODE == <<100, 101, 109, 111, 45, 114, 111, 111, 109>>

\* 'demo-seed', the session id of the seeded records
demoSession == "demo-seed"

\* the eight seeded pairs
samples == <<
    << <<112, 97, 105, 110>>, <<100, 105, 115, 116, 114, 117, 115, 116>> >>,
    << <<99, 111, 110, 102, 108, 105, 99, 116>>, <<118, 105, 111, 108, 101, 110, 99, 101>> >>,
    << <<100, 105, 115, 116, 114, 117, 115, 116>>, <<99, 111, 110, 102, 108, 105, 99, 116>> >>,
    << <<100, 105, 115, 116, 114, 117, 115, 116>>, <<116, 101, 110, 115, 105, 111, 110>> >>,
    << <<101, 109, 112, 97, 116, 104, 121>>,
       <<117, 110, 100, 101, 114, 115, 116, 97, 110, 100, 105, 110, 103>> >>,
    << <<116, 114, 117, 115, 116>>, <<99, 111, 111, 112, 101, 114, 97, 116, 105, 111, 110>> >>,
    << <<99, 111, 111, 112, 101, 114, 97, 116, 105, 111, 110>>,
       <<114, 101, 115, 111, 108, 117, 116, 105, 111, 110>> >>,
    << <<118, 105, 111, 108, 101, 110, 99, 101>>, <<116, 114, 97, 117, 109, 97>> >> >>

\* the "::" of the template literal in buildEdgeKey
Delimiter == <<58, 58>>

(***************************************************************************)
(* Canonicalizer                                                           *)
(***************************************************************************)
\* mutant: the two normalized concepts joined as given, never swapped
buildEdgeKeyAsGiven(conceptA, conceptB) ==
    toLowerCase(trim(conceptA)) \o Delimiter \o toLowerCase(trim(conceptB))

buildEdgeKey(conceptA, conceptB) ==
    LET a == toLowerCase(trim(conceptA))
        b == toLowerCase(trim(conceptB))
    IN  IF StrLess(a, b) THEN a \o Delimiter \o b ELSE b \o Delimiter \o a

\* null is [ok |-> FALSE]
validateSessionCode(code) ==
    IF code = <<>> THEN [ok |-> FALSE, value |-> <<>>]
    ELSE LET normalized == toLowerCase(trim(code))
         IN  IF normalized = <<>> \/ Len(normalized) > 64
             THEN [ok |-> FALSE, value |-> <<>>]
             ELSE [ok |-> TRUE, value |-> normalized]

(***************************************************************************)
(* Prepared statements                                                     *)
(***************************************************************************)
\* mutant: ON CONFLICT DO NOTHING, the weight of an existing row stays
upsertEdgeNoIncrement(E, p) ==
    IF \E e \in E : e.session_code = p.session_code /\ e.edge_key = p.edge_key
    THEN E
    ELSE E \cup {[session_code |-> p.session_code, concept_a |-> p.concept_a,
                  concept_b |-> p.concept_b, edge_key |-> p.edge_key, weight |-> 1]}

\* mutant: INSERT OR REPLACE, an existing row starts again at weight 1
upsertEdgeReplace(E, p) ==
    {e \in E : ~(e.session_code = p.session_code /\ e.edge_key = p.edge_key)}
    \cup {[session_code |-> p.session_code, concept_a |-> p.concept_a,
           concept_b |-> p.concept_b, edge_key |-> p.edge_key, weight |-> 1]}

\* INSERT ... VALUES (..., 1) ON CONFLICT(session_code, edge_key)
\* DO UPDATE SET weight = weight + 1
upsertEdge(E, p) ==
    IF \E e \in E : e.session_code = p.session_code /\ e.edge_key = p.edge_key
    THEN {IF e.session_code = p.session_code /\ e.edge_key = p.edge_key
          THEN [e EXCEPT !.weight = @ + 1]
          ELSE e : e \in E}
    ELSE E \cup {[session_code |-> p.session_code, concept_a |-> p.concept_a,
                  concept_b |-> p.concept_b, edge_key |-> p.edge_key, weight |-> 1]}

\* mutant: the query without its session_code condition
hasSessionEdgeAnyScope(SE, sessionId, sessionCode, edgeKey) ==
    \E r \in SE : r.session_id = sessionId /\ r.edge_key = edgeKey

\* mutant: the query finds nothing
hasSessionEdgeNever(SE, sessionId, sessionCode, edgeKey) == FALSE

\* SELECT 1 FROM session_edges WHERE session_id = ? AND session_code = ? AND edge_key = ?
hasSessionEdge(SE, sessionId, sessionCode, edgeKey) ==
    [session_id |-> sessionId, session_code |-> sessionCode, edge_key |-> edgeKey] \in SE

\* mutant: session_edges without its UNIQUE constraint
recordSessionEdgeNoUnique(SE, p) == FALSE

\* INSERT INTO session_edges: the UNIQUE constraint makes the statement throw
recordSessionEdgeThrows(SE, p) == p \in SE

recordSessionEdge(SE, p) == SE \cup {p}

\* ORDER BY weight DESC, concept_a ASC
RowBefore(r1, r2) ==
    \/ r1.weight > r2.weight
    \/ r1.weight = r2.weight /\ StrLess(r1.concept_a, r2.concept_a)

\* R holds <<row, number of rows the ORDER BY puts before it>>; a row may
\* take position p once that number is below p
RECURSIVE Arrange(_, _)
Arrange(R, p) ==
    IF R = {} THEN {<<>>}
    ELSE UNION {{<<m[1]>> \o rest : rest \in Arrange(R \ {m}, p + 1)} :
                m \in {r \in R : r[2] < p}}

\* every row order the ORDER BY admits: rows that tie on (weight, concept_a)
\* come in an order SQL leaves to the query plan
OrderedRows(S) ==
    Arrange({<<r, Cardinality({o \in S : RowBefore(o, r)})>> : r \in S}, 1)

listEdges(E, sessionCode) == OrderedRows({e \in E : e.session_code = sessionCode})

(***************************************************************************)
(* getGraph                                                                *)
(***************************************************************************)
\* mutant: only concept_a of a row becomes a node
RECURSIVE nodesMapSourceOnly(_, _)
nodesMapSourceOnly(rows, acc) ==
    IF rows = <<>> THEN acc
    ELSE LET a == trim(rows[1].concept_a)
         IN  nodesMapSourceOnly(Tail(rows),
                                IF a \in Range(acc) THEN acc ELSE Append(acc, a))

\* nodesMap: insertion-ordered Map keyed by the trimmed concept
RECURSIVE nodesMap(_, _)
nodesMap(rows, acc) ==
    IF rows = <<>> THEN acc
    ELSE LET a == trim(rows[1].concept_a)
             b == trim(rows[1].concept_b)
             acc1 == IF a \in Range(acc) THEN acc ELSE Append(acc, a)
             acc2 == IF b \in Range(acc1) THEN acc1 ELSE Append(acc1, b)
         IN  nodesMap(Tail(rows), acc2)

graphOfRows(rows) ==
    [nodes |-> nodesMap(rows, <<>>),
     edges |-> [i \in 1..Len(rows) |->
                   [from |-> trim(rows[i].concept_a),
                    to |-> trim(rows[i].concept_b),
                    weight |-> rows[i].weight]]]

\* the snapshots getGraph(sessionCode) can return on the table contents E
getGraph(E, sessionCode) == {graphOfRows(rows) : rows \in listEdges(E, sessionCode)}

(***************************************************************************)
(* Socket.IO.  A connection has its rooms (besides the room of its own id, *)
(* which it never leaves), the graph:update events emitted to it that its  *)
(* consumer has not handled yet, and the events its consumer has emitted   *)
(* that the server has not handled yet.                                    *)
(***************************************************************************)
\* socket.id of the connections
Sockets == {"k1", "k2"}

\* io.on('connection'): no room joined, nothing in flight
Connected == [k \in Sockets |-> [rooms |-> {}, sent |-> <<>>, events |-> <<>>]]

\* the connections an emission is addressed to: io.to(room) names a room,
\* socket.emit the connection itself
Addressed(socks, k, e) ==
    IF "room" \in DOMAIN e THEN e.room \in socks[k].rooms ELSE e.socket = k

\* mutant: every emission goes to every connection
ioEmitAll(socks, emission) ==
    [k \in DOMAIN socks |->
        IF emission # {}
        THEN [socks[k] EXCEPT !.sent = Append(@, (CHOOSE e \in emission : TRUE).graph)]
        ELSE socks[k]]

\* io.to(sessionCode).emit('graph:update', graph) and
\* socket.emit('graph:update', graph)
ioEmit(socks, emission) ==
    [k \in DOMAIN socks |->
        IF \E e \in emission : Addressed(socks, k, e)
        THEN [socks[k] EXCEPT
                !.sent = Append(@, (CHOOSE e \in emission : Addressed(socks, k, e)).graph)]
        ELSE socks[k]]

\* mutant: the room is joined without a look at the sessions table
sessionJoinAnyCode(socks, Sess, k, code) ==
    LET sessionCode == validateSessionCode(code)
    IN  IF ~sessionCode.ok THEN socks
        ELSE [socks EXCEPT
                ![k].rooms = {room \in @ : room = sessionCode.value}
                                \cup {sessionCode.value}]

\* mutant: the new room is joined and no other room is left
sessionJoinKeepRooms(socks, Sess, k, code) ==
    LET sessionCode == validateSessionCode(code)
    IN  IF ~sessionCode.ok \/ sessionCode.value \notin Sess THEN socks
        ELSE [socks EXCEPT ![k].rooms = @ \cup {sessionCode.value}]

\* socket.on('session:join'): the rooms of the connection
sessionJoin(socks, Sess, k, code) ==
    LET sessionCode == validateSessionCode(code)
    IN  IF ~sessionCode.ok \/ sessionCode.value \notin Sess THEN socks
        ELSE [socks EXCEPT
                ![k].rooms = {room \in @ : room = sessionCode.value}
                                \cup {sessionCode.value}]

\* socket.on('session:join'): what it emits to the connection
joinEmissions(E, Sess, k, code) ==
    LET sessionCode == validateSessionCode(code)
    IN  IF ~sessionCode.ok \/ sessionCode.value \notin Sess THEN {{}}
        ELSE {{[socket |-> k, graph |-> graph]} : graph \in getGraph(E, sessionCode.value)}

\* socket.on('session:leave'): the rooms of the connection
sessionLeave(socks, k, code) ==
    LET sessionCode == validateSessionCode(code)
    IN  IF ~sessionCode.ok THEN socks
        ELSE [socks EXCEPT ![k].rooms = @ \ {sessionCode.value}]

(***************************************************************************)
(* Client script: buildMetrics.  A Map is a function together with the     *)
(* insertion order of its keys where the script iterates it; a Set is a    *)
(* sequence without repetition, in insertion order; null is the empty set. *)
(***************************************************************************)
EmptyMap == <<>>

\* Map.prototype.set
MapSet(map, key, value) == (key :> value) @@ map

\* Set.prototype.add, and the position a first Map.prototype.set gives a key
SetAdd(set, value) == IF value \in Range(set) THEN set ELSE Append(set, value)

\* degrees and adjacency before the first node: keys is the iteration order
\* of degrees
NoEntries == [keys |-> <<>>, degrees |-> EmptyMap, adjacency |-> EmptyMap]

\* graph.nodes.forEach: degree 0 and an empty neighbour Set for every node
\* (the test on m.keys, never true, has m evaluated before every descent)
RECURSIVE setNodes(_, _)
setNodes(nodes, m) ==
    IF nodes = <<>> \/ Len(m.keys) < 0 THEN m
    ELSE setNodes(Tail(nodes),
                  [keys |-> SetAdd(m.keys, nodes[1]),
                   degrees |-> MapSet(m.degrees, nodes[1], 0),
                   adjacency |-> MapSet(m.adjacency, nodes[1], <<>>)])

\* mutant: every submission counted, the degrees grow by the edge's weight
countEdgeByWeight(m, edge) ==
    LET from == edge.from
        to == edge.to
        d0 == IF from \in DOMAIN m.degrees THEN m.degrees ELSE MapSet(m.degrees, from, 0)
        d1 == IF to \in DOMAIN d0 THEN d0 ELSE MapSet(d0, to, 0)
        d2 == MapSet(d1, from, d1[from] + edge.weight)
        d3 == MapSet(d2, to, d2[to] + edge.weight)
        a0 == IF from \in DOMAIN m.adjacency THEN m.adjacency
              ELSE MapSet(m.adjacency, from, <<>>)
        a1 == IF to \in DOMAIN a0 THEN a0 ELSE MapSet(a0, to, <<>>)
        a2 == MapSet(a1, from, SetAdd(a1[from], to))
        a3 == MapSet(a2, to, SetAdd(a2[to], from))
    IN  [keys |-> SetAdd(SetAdd(m.keys, from), to), degrees |-> d3, adjacency |-> a3]

\* the body of graph.edges.forEach for one edge
countEdge(m, edge) ==
    LET from == edge.from
        to == edge.to
        d0 == IF from \in DOMAIN m.degrees THEN m.degrees ELSE MapSet(m.degrees, from, 0)
        d1 == IF to \in DOMAIN d0 THEN d0 ELSE MapSet(d0, to, 0)
        d2 == MapSet(d1, from, d1[from] + 1)
        d3 == MapSet(d2, to, d2[to] + 1)
        a0 == IF from \in DOMAIN m.adjacency THEN m.adjacency
              ELSE MapSet(m.adjacency, from, <<>>)
        a1 == IF to \in DOMAIN a0 THEN a0 ELSE MapSet(a0, to, <<>>)
        a2 == MapSet(a1, from, SetAdd(a1[from], to))
        a3 == MapSet(a2, to, SetAdd(a2[to], from))
    IN  [keys |-> SetAdd(SetAdd(m.keys, from), to), degrees |-> d3, adjacency |-> a3]

\* graph.edges.forEach (m is evaluated before every descent, as in setNodes)
RECURSIVE countEdges(_, _)
countEdges(graphEdges, m) ==
    IF graphEdges = <<>> \/ Len(m.keys) < 0 THEN m
    ELSE countEdges(Tail(graphEdges), countEdge(m, graphEdges[1]))

\* mutant: the comparison turned round, the least degree wins
pickHubLeast(keys, degrees, hubId, hubDegree) ==
    IF keys = <<>> THEN {}
    ELSE {CHOOSE k \in Range(keys) : \A o \in Range(keys) : degrees[k] <= degrees[o]}

\* mutant: hubId starts as a node id instead of null
pickHubNeverNull(keys, degrees, hubId, hubDegree) ==
    IF keys = <<>> THEN {<<>>}
    ELSE {CHOOSE k \in Range(keys) : \A o \in Range(keys) : degrees[k] >= degrees[o]}

\* degrees.forEach: a key replaces the hub when its degree is strictly greater
RECURSIVE pickHub(_, _, _, _)
pickHub(keys, degrees, hubId, hubDegree) ==
    IF keys = <<>> THEN hubId
    ELSE IF degrees[keys[1]] > hubDegree
         THEN pickHub(Tail(keys), degrees, {keys[1]}, degrees[keys[1]])
         ELSE pickHub(Tail(keys), degrees, hubId, hubDegree)

\* mutant: every newly met node gets distance 1
visitFlat(neighbours, current, walk) ==
    LET fresh == SelectSeq(neighbours, LAMBDA n : n \notin DOMAIN walk.distances)
    IN  [distances |-> [k \in DOMAIN walk.distances \cup Range(fresh) |->
                           IF k \in DOMAIN walk.distances THEN walk.distances[k] ELSE 1],
         queue |-> walk.queue \o fresh]

\* neighbours.forEach: a node without a distance gets the current node's
\* distance plus 1 and joins the queue
RECURSIVE visit(_, _, _)
visit(neighbours, current, walk) ==
    IF neighbours = <<>> THEN walk
    ELSE LET next == neighbours[1]
         IN  IF next \in DOMAIN walk.distances
             THEN visit(Tail(neighbours), current, walk)
             ELSE visit(Tail(neighbours), current,
                        [distances |-> MapSet(walk.distances, next,
                                              walk.distances[current] + 1),
                         queue |-> Append(walk.queue, next)])

\* while (queue.length): queue.shift() and its neighbours
RECURSIVE breadthFirst(_, _)
breadthFirst(adjacency, walk) ==
    IF walk.queue = <<>> THEN walk.distances
    ELSE LET current == Head(walk.queue)
             neighbours == IF current \in DOMAIN adjacency THEN adjacency[current] ELSE <<>>
         IN  breadthFirst(adjacency,
                          visit(neighbours, current,
                                [distances |-> walk.distances, queue |-> Tail(walk.queue)]))

buildMetrics(graph) ==
    LET m == countEdges(graph.edges, setNodes(graph.nodes, NoEntries))
        hubId == pickHub(m.keys, m.degrees, {}, -1)
        distances ==
            IF hubId = {} THEN EmptyMap
            ELSE LET hub == CHOOSE h \in hubId : TRUE
                 IN  breadthFirst(m.adjacency,
                                  [distances |-> MapSet(EmptyMap, hub, 0), queue |-> <<hub>>])
    IN  [keys |-> m.keys, degrees |-> m.degrees, adjacency |-> m.adjacency,
         hubId |-> hubId, distances |-> distances]

(***************************************************************************)
(* Client script: the two computed layouts.  Lengths of the Focused        *)
(* layout are in hundredths of a pixel, so that 0.24 and 0.2 of the        *)
(* container's smaller side are whole numbers.  A Focused position is kept *)
(* as the ring radius, the index on the ring and the ring's node count:    *)
(* it stands for every point x = cos(2*pi*index/count - pi/2) * radius + j,*)
(* y = sin(2*pi*index/count - pi/2) * radius + j with j, the value of      *)
(* (Math.random() - 0.5) * 18 drawn for the node, anywhere in [-9, 9).     *)
(***************************************************************************)
\* Number.MAX_SAFE_INTEGER is 2^53 - 1; the script only compares it with
\* levels (===, the sort of the level keys), which are below the number of
\* nodes, so the largest integer of the model checker stands for it
MAX_SAFE_INTEGER == 2147483647

Min(a, b) == IF a < b THEN a ELSE b

\* mutant: a node without a distance is given level 0
levelOfZero(distances, id) ==
    IF id \in DOMAIN distances THEN distances[id] ELSE 0

\* distances.has(node.id) ? distances.get(node.id) : Number.MAX_SAFE_INTEGER
levelOf(distances, id) ==
    IF id \in DOMAIN distances THEN distances[id] ELSE MAX_SAFE_INTEGER

RECURSIVE ascending(_)
ascending(S) ==
    IF S = {} THEN <<>>
    ELSE LET least == CHOOSE l \in S : \A o \in S : l <= o
         IN  <<least>> \o ascending(S \ {least})

\* [...levels.entries()].sort((a, b) => a[0] - b[0]) of the levels Map that
\* nodes.forEach fills: every level with its node ids in the order of nodes
sortedLevels(nodes, distances) ==
    LET keys == ascending({levelOf(distances, nodes[i]) : i \in 1..Len(nodes)})
    IN  [k \in 1..Len(keys) |->
            [level |-> keys[k],
             ids |-> SelectSeq(nodes, LAMBDA id : levelOf(distances, id) = keys[k])]]

\* mutant: every ring at the base radius
ringRadiusFlat(baseRadius, radiusStep, ringIndex) == baseRadius

\* baseRadius + radiusStep * (ringIndex - 1)
ringRadius(baseRadius, radiusStep, ringIndex) == baseRadius + radiusStep * (ringIndex - 1)

\* mutant: the first node of a ring at 0 degrees
ringAngleFromZero(index, count) == [num |-> 360 * index, den |-> count]

\* angleStep * index - Math.PI / 2 with angleStep = (2 * Math.PI) / count, in
\* degrees, as the fraction num / den
ringAngle(index, count) == [num |-> 360 * index - 90 * count, den |-> count]

\* { x: 0, y: 0 }
Origin == [radius |-> 0, index |-> 0, count |-> 1]

computeFocusedLayout(nodes, metrics, container) ==
    IF nodes = <<>> THEN EmptyMap
    ELSE
    LET width == IF container.clientWidth = 0 THEN 640 ELSE container.clientWidth
        height == IF container.clientHeight = 0 THEN 480 ELSE container.clientHeight
        baseRadius == Min(width, height) * 24
        radiusStep == Min(width, height) * 20
        sorted == sortedLevels(nodes, metrics.distances)
        placed(id) ==
            LET k == CHOOSE j \in 1..Len(sorted) :
                        sorted[j].level = levelOf(metrics.distances, id)
                level == sorted[k].level
                ids == sorted[k].ids
                ringIndex == IF level = MAX_SAFE_INTEGER THEN Len(sorted) ELSE level
                last == CHOOSE i \in 1..Len(ids) :
                           ids[i] = id /\ \A j \in 1..Len(ids) : ids[j] = id => j <= i
            IN  [radius |-> ringRadius(baseRadius, radiusStep, ringIndex),
                 index |-> last - 1,
                 count |-> Len(ids),
                 angle |-> ringAngle(last - 1, Len(ids))]
        positions == [id \in Range(nodes) |-> placed(id)]
    IN  IF \E hub \in metrics.hubId : hub # <<>> /\ hub \notin DOMAIN positions
        THEN MapSet(positions, CHOOSE hub \in metrics.hubId : TRUE, Origin)
        ELSE positions

\* ids.sort((a, b) => (degrees.get(b) || 0) - (degrees.get(a) || 0)): the
\* sort is stable, ids of equal degree keep their order
sortByDegree(ids, degrees) ==
    LET deg(i) == IF ids[i] \in DOMAIN degrees THEN degrees[ids[i]] ELSE 0
        place(i) == Cardinality({j \in 1..Len(ids) : deg(j) > deg(i)})
                    + Cardinality({j \in 1..(i - 1) : deg(j) = deg(i)}) + 1
    IN  [p \in 1..Len(ids) |-> ids[CHOOSE i \in 1..Len(ids) : place(i) = p]]

\* mutant: the unreachable ids together in the level maxLevel + 1
layersOneFallback(nodes, distances) ==
    LET finite == SelectSeq(nodes, LAMBDA id : levelOf(distances, id) # MAX_SAFE_INTEGER)
        unreachable == SelectSeq(nodes, LAMBDA id : levelOf(distances, id) = MAX_SAFE_INTEGER)
        finiteLevels == {levelOf(distances, finite[i]) : i \in 1..Len(finite)}
        maxLevel == IF finiteLevels = {} THEN 0
                    ELSE CHOOSE l \in finiteLevels : \A o \in finiteLevels : o <= l
        keys == ascending(finiteLevels \cup {maxLevel + 1 : j \in 1..Len(unreachable)})
    IN  [k \in 1..Len(keys) |->
            [level |-> keys[k],
             ids |-> IF keys[k] \in finiteLevels
                     THEN SelectSeq(finite, LAMBDA id : levelOf(distances, id) = keys[k])
                     ELSE unreachable]]

\* the levels Map after the unreachable ids have been moved to the levels
\* maxLevel + 1, maxLevel + 2, ..., sorted by level
layers(nodes, distances) ==
    LET finite == SelectSeq(nodes, LAMBDA id : levelOf(distances, id) # MAX_SAFE_INTEGER)
        unreachable == SelectSeq(nodes, LAMBDA id : levelOf(distances, id) = MAX_SAFE_INTEGER)
        finiteLevels == {levelOf(distances, finite[i]) : i \in 1..Len(finite)}
        maxLevel == IF finiteLevels = {} THEN 0
                    ELSE CHOOSE l \in finiteLevels : \A o \in finiteLevels : o <= l
        keys == ascending(finiteLevels \cup {maxLevel + j : j \in 1..Len(unreachable)})
    IN  [k \in 1..Len(keys) |->
            [level |-> keys[k],
             ids |-> IF keys[k] \in finiteLevels
                     THEN SelectSeq(finite, LAMBDA id : levelOf(distances, id) = keys[k])
                     ELSE <<unreachable[keys[k] - maxLevel]>>]]

\* mutant: every layer at the height of the middle of the stack
layerYFlat(level, layerCount) == 0

\* y = (level - (sortedLevels.length - 1) / 2) * layerHeight, layerHeight
\* being 180: a whole number of pixels
layerY(level, layerCount) == (2 * level - (layerCount - 1)) * 90

\* mutant: the nodes of a layer from x = 0 to the right
slotXFromZero(index, count) == index * 180

\* x = (index - half) * nodeSpacing with half = (ids.length - 1) / 2,
\* nodeSpacing being 180: a whole number of pixels
slotX(index, count) == (2 * index - (count - 1)) * 90

computeHierarchyLayout(nodes, metrics) ==
    IF nodes = <<>> THEN EmptyMap
    ELSE
    LET sorted == layers(nodes, metrics.distances)
        placed(id) ==
            LET k == CHOOSE j \in 1..Len(sorted) : id \in Range(sorted[j].ids)
                ids == sortByDegree(sorted[k].ids, metrics.degrees)
                last == CHOOSE i \in 1..Len(ids) :
                           ids[i] = id /\ \A j \in 1..Len(ids) : ids[j] = id => j <= i
            IN  [x |-> slotX(last - 1, Len(ids)),
                 y |-> layerY(sorted[k].level, Len(sorted))]
        positions == [id \in Range(nodes) |-> placed(id)]
    IN  IF \E hub \in metrics.hubId : hub # <<>> /\ hub \in DOMAIN positions
        THEN LET hub == CHOOSE h \in metrics.hubId : TRUE
             IN  MapSet(positions, hub, [x |-> 0, y |-> positions[hub].y])
        ELSE positions

\* state, activeView, activeSessionCode and the positions applyViewMode has
\* fixed, in a browser whose #graph element has the given client size; inbox
\* holds the responses the script awaits, with the function that awaits them
InitialClient(container) ==
    [graph |-> [nodes |-> <<>>, edges |-> <<>>],
     metrics |-> [keys |-> <<>>, degrees |-> EmptyMap, adjacency |-> EmptyMap,
                  hubId |-> {}, distances |-> EmptyMap],
     session |-> {},
     isExample |-> FALSE,
     activeView |-> "free",
     activeSessionCode |-> {},
     layout |-> EmptyMap,
     container |-> container,
     inbox |-> <<>>]

\* mutant: the mode is not taken while the graph is empty
applyViewModeUnlessEmpty(c, mode) ==
    IF c.graph.nodes = <<>> THEN c
    ELSE [c EXCEPT
            !.activeView = mode,
            !.layout = IF mode = "free" THEN EmptyMap
                       ELSE IF mode = "hierarchy"
                            THEN computeHierarchyLayout(c.graph.nodes, c.metrics)
                            ELSE computeFocusedLayout(c.graph.nodes, c.metrics,
                                                      c.container)]

\* applyViewMode(mode): nothing but activeView changes while the graph is
\* empty; in free mode the positions are left to the physics engine
applyViewMode(c, mode) ==
    IF c.graph.nodes = <<>> THEN [c EXCEPT !.activeView = mode]
    ELSE [c EXCEPT
            !.activeView = mode,
            !.layout = IF mode = "free" THEN EmptyMap
                       ELSE IF mode = "hierarchy"
                            THEN computeHierarchyLayout(c.graph.nodes, c.metrics)
                            ELSE computeFocusedLayout(c.graph.nodes, c.metrics,
                                                      c.container)]

\* renderGraph(graph): state, the cleared and refilled DataSets, and
\* applyViewMode(activeView)
renderGraph(c, graph) ==
    applyViewMode([c EXCEPT !.graph = graph, !.metrics = buildMetrics(graph),
                            !.layout = EmptyMap],
                  c.activeView)

\* leaveActiveSession: the script's variables, and the events it emits
leaveActiveSession(c) ==
    [client |-> [c EXCEPT !.activeSessionCode = {}],
     emits |-> [i \in 1..Cardinality(c.activeSessionCode) |->
                  [event |-> "session:leave",
                   code |-> CHOOSE code \in c.activeSessionCode : TRUE]]]

\* joinSocketSession(code)
joinSocketSession(c, code) ==
    IF code = <<>> THEN [client |-> c, emits |-> <<>>]
    ELSE LET left == leaveActiveSession(c)
         IN  [client |-> [left.client EXCEPT !.activeSessionCode = {code}],
              emits |-> Append(left.emits, [event |-> "session:join", code |-> code])]

\* applyGraphResponse(payload, isExample): state.session is kept as the code
\* of the session row
applyGraphResponse(c, payload, isExample) ==
    renderGraph([c EXCEPT !.session = {payload.session}, !.isExample = isExample],
                payload.graph)

(***************************************************************************)
(* Start-up: resetDemoData on an empty database                            *)
(***************************************************************************)
RECURSIVE seedEdges(_, _)
seedEdges(i, E) ==
    IF i > Len(samples) THEN E
    ELSE seedEdges(i + 1,
            upsertEdge(E, [session_code |-> DEFAULT_SESSION_CODE,
                           concept_a |-> samples[i][1],
                           concept_b |-> samples[i][2],
                           edge_key |-> buildEdgeKey(samples[i][1], samples[i][2])]))

\* INSERT OR IGNORE INTO session_edges
seedSessionEdges ==
    {[session_id |-> demoSession, session_code |-> DEFAULT_SESSION_CODE,
      edge_key |-> buildEdgeKey(samples[i][1], samples[i][2])] : i \in 1..Len(samples)}

(***************************************************************************)
(* Inputs                                                                  *)
(***************************************************************************)
\* the session_id cookie values of the browsers
SessionIds == {"s1", "s2"}

\* 'calm-sun-100', the code generateSessionCode draws
NewCode == <<99, 97, 108, 109, 45, 115, 117, 110, 45, 49, 48, 48>>

SessionCodeCandidates == {NewCode}

\* :code route parameters: both rooms as stored, and a blank code
RawCodes == {DEFAULT_SESSION_CODE, NewCode, <<32>>}

\* concept texts typed into the form: "trust", " Trust ", "cooperation"
RawConcepts ==
    {<<116, 114, 117, 115, 116>>, <<32, 84, 114, 117, 115, 116, 32>>,
     <<99, 111, 111, 112, 101, 114, 97, 116, 105, 111, 110>>}

NoBody == [f \in {} |-> <<>>]

\* JSON bodies: both fields drawn from RawConcepts; no field at all; no
\* target; an empty source; a target of one space
Bodies ==
    {[source |-> s, target |-> t] : s \in RawConcepts, t \in RawConcepts}
    \cup {NoBody,
          [source |-> <<116, 114, 117, 115, 116>>],
          [source |-> <<>>, target |-> <<116, 114, 117, 115, 116>>],
          [source |-> <<116, 114, 117, 115, 116>>, target |-> <<32>>]}

\* !body.field : undefined or the empty string
Falsy(body, f) == f \notin DOMAIN body \/ body[f] = <<>>

(***************************************************************************)
(* Requests and responses                                                  *)
(***************************************************************************)
NoRequest == [op |-> "none", code |-> <<>>, sessionId |-> "", body |-> NoBody]

NoResponse == [http |-> 0, status |-> "", error |-> "", graph |-> {}]

ErrorResponse(http, error) == [http |-> http, status |-> "", error |-> error, graph |-> {}]

\* what Express answers when a handler throws
ServerError == ErrorResponse(500, "Internal Server Error")

(***************************************************************************)
(* app.post('/api/session/:code/submit'), lines 316-323: the two concepts   *)
(* are normalized, checked and turned into the edge key                    *)
(***************************************************************************)
\* mutant: the check without its "distinct" part
normalizePairNotDistinct(source, target) ==
    LET normalizedSource == toLowerCase(trim(source))
        normalizedTarget == toLowerCase(trim(target))
    IN  IF normalizedSource = <<>> \/ normalizedTarget = <<>>
        THEN [ok |-> FALSE, source |-> normalizedSource, target |-> normalizedTarget,
              edgeKey |-> <<>>]
        ELSE [ok |-> TRUE, source |-> normalizedSource, target |-> normalizedTarget,
              edgeKey |-> buildEdgeKey(normalizedSource, normalizedTarget)]

\* mutant: the concepts trimmed but not lower-cased
normalizePairKeepCase(source, target) ==
    LET normalizedSource == trim(source)
        normalizedTarget == trim(target)
    IN  IF normalizedSource = <<>> \/ normalizedTarget = <<>>
           \/ normalizedSource = normalizedTarget
        THEN [ok |-> FALSE, source |-> normalizedSource, target |-> normalizedTarget,
              edgeKey |-> <<>>]
        ELSE [ok |-> TRUE, source |-> normalizedSource, target |-> normalizedTarget,
              edgeKey |-> buildEdgeKey(normalizedSource, normalizedTarget)]

normalizePair(source, target) ==
    LET normalizedSource == toLowerCase(trim(source))
        normalizedTarget == toLowerCase(trim(target))
    IN  IF normalizedSource = <<>> \/ normalizedTarget = <<>>
           \/ normalizedSource = normalizedTarget
        THEN [ok |-> FALSE, source |-> normalizedSource, target |-> normalizedTarget,
              edgeKey |-> <<>>]
        ELSE [ok |-> TRUE, source |-> normalizedSource, target |-> normalizedTarget,
              edgeKey |-> buildEdgeKey(normalizedSource, normalizedTarget)]

\* lines 298-323: everything the handler decides before it touches edges and
\* session_edges
submitPlan(Sess, code, body) ==
    LET sessionCode == validateSessionCode(code)
    IN  IF ~sessionCode.ok
        THEN [kind |-> "invalid_code", http |-> 400, error |-> "Invalid session code."]
        ELSE IF sessionCode.value \notin Sess
        THEN [kind |-> "not_found", http |-> 404, error |-> "Session not found."]
        ELSE IF Falsy(body, "source") \/ Falsy(body, "target")
        THEN [kind |-> "required", http |-> 400,
              error |-> "Both source and target concepts are required."]
        ELSE LET n == normalizePair(body.source, body.target)
             IN  IF ~n.ok
                 THEN [kind |-> "not_distinct", http |-> 400,
                       error |-> "Concepts must be non-empty and distinct."]
                 ELSE [kind |-> "proceed", sessionCode |-> sessionCode.value,
                       normalizedSource |-> n.source, normalizedTarget |-> n.target,
                       edgeKey |-> n.edgeKey]

SessionEdgeRow(sessionId, sessionCode, edgeKey) ==
    [session_id |-> sessionId, session_code |-> sessionCode, edge_key |-> edgeKey]

EdgeParams(plan) ==
    [session_code |-> plan.sessionCode, concept_a |-> plan.normalizedSource,
     concept_b |-> plan.normalizedTarget, edge_key |-> plan.edgeKey]

(***************************************************************************)
(* State after start-up on a fresh database                                *)
(***************************************************************************)
Init ==
    /\ sessions = {DEFAULT_SESSION_CODE}
    /\ edges = seedEdges(1, {})
    /\ session_edges = seedSessionEdges
    /\ res = NoResponse
    /\ emitted = {}
    /\ req = NoRequest
    /\ inflight = <<>>
    /\ probe = <<>>
    /\ client = InitialClient([clientWidth |-> 0, clientHeight |-> 0])
    /\ sockets = Connected

(***************************************************************************)
(* app.post('/api/session/:code/submit'): Node runs the handler to its end  *)
(* before it serves another request, and every statement is synchronous    *)
(***************************************************************************)
PostSubmit(code, sessionId, body) ==
    LET plan == submitPlan(sessions, code, body)
    IN  /\ req' = [op |-> "submit", code |-> code, sessionId |-> sessionId, body |-> body]
        /\ UNCHANGED <<sessions, inflight, probe>>
        /\ IF plan.kind # "proceed"
           THEN /\ res' = ErrorResponse(plan.http, plan.error)
                /\ emitted' = {}
                /\ UNCHANGED <<edges, session_edges>>
           ELSE IF hasSessionEdge(session_edges, sessionId, plan.sessionCode, plan.edgeKey)
           THEN /\ \E graph \in getGraph(edges, plan.sessionCode) :
                      res' = [http |-> 200, status |-> "duplicate", error |-> "",
                              graph |-> {graph}]
                /\ emitted' = {}
                /\ UNCHANGED <<edges, session_edges>>
           ELSE IF recordSessionEdgeThrows(session_edges,
                        SessionEdgeRow(sessionId, plan.sessionCode, plan.edgeKey))
           THEN /\ res' = ServerError
                /\ emitted' = {}
                /\ UNCHANGED <<edges, session_edges>>
           ELSE /\ session_edges' =
                      recordSessionEdge(session_edges,
                          SessionEdgeRow(sessionId, plan.sessionCode, plan.edgeKey))
                /\ edges' = upsertEdge(edges, EdgeParams(plan))
                /\ \E graph \in getGraph(edges', plan.sessionCode) :
                      /\ emitted' = {[room |-> plan.sessionCode, graph |-> graph]}
                      /\ res' = [http |-> 201, status |-> "ok", error |-> "",
                                 graph |-> {graph}]
        /\ sockets' = ioEmit(sockets, emitted')

\* the handler, served to a browser other than the one of client
Submit(code, sessionId, body) == PostSubmit(code, sessionId, body) /\ UNCHANGED client

\* app.get('/api/session/:code/graph')
GetSessionGraph(code) ==
    LET sessionCode == validateSessionCode(code)
    IN  /\ req' = [op |-> "graph", code |-> code, sessionId |-> "", body |-> NoBody]
        /\ emitted' = {}
        /\ UNCHANGED <<sessions, edges, session_edges, inflight, probe, sockets>>
        /\ IF ~sessionCode.ok
           THEN res' = ErrorResponse(400, "Invalid session code.")
           ELSE IF sessionCode.value \notin sessions
           THEN res' = ErrorResponse(404, "Session not found.")
           ELSE \E graph \in getGraph(edges, sessionCode.value) :
                    res' = [http |-> 200, status |-> "", error |-> "", graph |-> {graph}]

\* the handler, served to a browser other than the one of client
GetGraph(code) == GetSessionGraph(code) /\ UNCHANGED client

\* generateSessionCode: a candidate the sessions table does not hold yet
generateSessionCode(Sess) == SessionCodeCandidates \ Sess

\* ensureSessionExists: INSERT INTO sessions unless the code is there
ensureSessionExists(Sess, code) == Sess \cup {code}

\* app.post('/api/session')
CreateSession ==
    /\ \E code \in generateSessionCode(sessions) :
           /\ sessions' = ensureSessionExists(sessions, code)
           /\ req' = [op |-> "create", code |-> code, sessionId |-> "", body |-> NoBody]
    /\ res' = [http |-> 201, status |-> "", error |-> "", graph |-> {}]
    /\ emitted' = {}
    /\ UNCHANGED <<edges, session_edges, inflight, probe, client, sockets>>

Next ==
    \/ \E code \in RawCodes, sessionId \in SessionIds, body \in Bodies :
           Submit(code, sessionId, body)
    \/ \E code \in RawCodes : GetGraph(code)
    \/ CreateSession

Spec == Init /\ [][Next]_vars

(***************************************************************************)
(* Storage failures: a statement of the recording branch throws (disk      *)
(* full, I/O error, SQLITE_BUSY).  The statements run in autocommit mode,  *)
(* the handler opens no transaction, and Express answers 500.              *)
(***************************************************************************)
\* (trust, cooperation), (cooperation, " Trust "), (trust, " Trust ")
ConcBodies ==
    {[source |-> <<116, 114, 117, 115, 116>>,
      target |-> <<99, 111, 111, 112, 101, 114, 97, 116, 105, 111, 110>>],
     [source |-> <<99, 111, 111, 112, 101, 114, 97, 116, 105, 111, 110>>,
      target |-> <<32, 84, 114, 117, 115, 116, 32>>],
     [source |-> <<116, 114, 117, 115, 116>>,
      target |-> <<32, 84, 114, 117, 115, 116, 32>>]}

FaultCodes == {DEFAULT_SESSION_CODE, NewCode}

SubmitFails(code, sessionId, body, failing) ==
    LET plan == submitPlan(sessions, code, body)
    IN  /\ plan.kind = "proceed"
        /\ ~hasSessionEdge(session_edges, sessionId, plan.sessionCode, plan.edgeKey)
        /\ req' = [op |-> "submit", code |-> code, sessionId |-> sessionId, body |-> body]
        /\ res' = ServerError
        /\ emitted' = {}
        /\ UNCHANGED <<sessions, edges, inflight, probe, client, sockets>>
        /\ IF failing = "recordSessionEdge"
           THEN UNCHANGED session_edges
           ELSE session_edges' =
                    recordSessionEdge(session_edges,
                        SessionEdgeRow(sessionId, plan.sessionCode, plan.edgeKey))

NextFault ==
    \/ \E code \in FaultCodes, sessionId \in SessionIds, body \in ConcBodies :
           Submit(code, sessionId, body)
    \/ \E code \in FaultCodes, sessionId \in SessionIds, body \in ConcBodies,
          failing \in {"recordSessionEdge", "upsertEdge"} :
           SubmitFails(code, sessionId, body, failing)
    \/ \E code \in FaultCodes : GetGraph(code)
    \/ CreateSession

SpecFault == Init /\ [][NextFault]_vars

(***************************************************************************)
(* The submit handler statement by statement: several server processes on  *)
(* the same database file interleave between statements, each statement    *)
(* being atomic.  A single Node process runs a subset of these behaviours. *)
(***************************************************************************)
ConcCodes == {NewCode}

Slots == 1..MaxInflight

FreeSlots == Slots \ DOMAIN inflight

Put(slot, r) == [k \in DOMAIN inflight \cup {slot} |-> IF k = slot THEN r ELSE inflight[k]]

Drop(slot) == [k \in DOMAIN inflight \ {slot} |-> inflight[k]]

\* lines 298-328 up to the result of hasSessionEdge.get
Begin(code, sessionId, body) ==
    LET plan == submitPlan(sessions, code, body)
    IN  /\ FreeSlots # {}
        /\ UNCHANGED <<sessions, edges, session_edges, req, probe, client, sockets>>
        /\ IF plan.kind # "proceed"
           THEN /\ res' = ErrorResponse(plan.http, plan.error)
                /\ emitted' = {}
                /\ UNCHANGED inflight
           ELSE /\ inflight' =
                      Put(CHOOSE k \in FreeSlots : \A j \in FreeSlots : k <= j,
                          [pc |-> IF hasSessionEdge(session_edges, sessionId,
                                                    plan.sessionCode, plan.edgeKey)
                                  THEN "duplicate" ELSE "recordSessionEdge",
                           sessionId |-> sessionId, plan |-> plan])
                /\ UNCHANGED <<res, emitted>>

\* line 327
StepDuplicate(slot) ==
    /\ slot \in DOMAIN inflight
    /\ inflight[slot].pc = "duplicate"
    /\ \E graph \in getGraph(edges, inflight[slot].plan.sessionCode) :
           res' = [http |-> 200, status |-> "duplicate", error |-> "", graph |-> {graph}]
    /\ emitted' = {}
    /\ inflight' = Drop(slot)
    /\ UNCHANGED <<sessions, edges, session_edges, req, probe, client, sockets>>

\* line 330
StepRecord(slot) ==
    /\ slot \in DOMAIN inflight
    /\ inflight[slot].pc = "recordSessionEdge"
    /\ LET r == inflight[slot]
           row == SessionEdgeRow(r.sessionId, r.plan.sessionCode, r.plan.edgeKey)
       IN  IF recordSessionEdgeThrows(session_edges, row)
           THEN /\ res' = ServerError
                /\ emitted' = {}
                /\ inflight' = Drop(slot)
                /\ UNCHANGED session_edges
           ELSE /\ session_edges' = recordSessionEdge(session_edges, row)
                /\ inflight' = Put(slot, [r EXCEPT !.pc = "upsertEdge"])
                /\ UNCHANGED <<res, emitted>>
    /\ UNCHANGED <<sessions, edges, req, probe, client, sockets>>

\* lines 331-336
StepUpsert(slot) ==
    /\ slot \in DOMAIN inflight
    /\ inflight[slot].pc = "upsertEdge"
    /\ edges' = upsertEdge(edges, EdgeParams(inflight[slot].plan))
    /\ inflight' = Put(slot, [inflight[slot] EXCEPT !.pc = "respond"])
    /\ UNCHANGED <<sessions, session_edges, res, emitted, req, probe, client, sockets>>

\* lines 338-341
StepRespond(slot) ==
    /\ slot \in DOMAIN inflight
    /\ inflight[slot].pc = "respond"
    /\ \E graph \in getGraph(edges, inflight[slot].plan.sessionCode) :
           /\ emitted' = {[room |-> inflight[slot].plan.sessionCode, graph |-> graph]}
           /\ res' = [http |-> 201, status |-> "ok", error |-> "", graph |-> {graph}]
    /\ inflight' = Drop(slot)
    /\ sockets' = ioEmit(sockets, emitted')
    /\ UNCHANGED <<sessions, edges, session_edges, req, probe, client>>

NextConc ==
    \/ \E code \in ConcCodes, sessionId \in SessionIds, body \in ConcBodies :
           Begin(code, sessionId, body)
    \/ \E slot \in Slots : StepDuplicate(slot)
    \/ \E slot \in Slots : StepRecord(slot)
    \/ \E slot \in Slots : StepUpsert(slot)
    \/ \E slot \in Slots : StepRespond(slot)
    \/ CreateSession

SpecConc == Init /\ [][NextConc]_vars

(***************************************************************************)
(* The canonicalizer on its own: every pair of texts of at most MaxLen     *)
(* code units over space, ':', 'A', 'a', 'b'                               *)
(***************************************************************************)
Alphabet == {32, 58, 65, 97, 98}

Strings == UNION {[1..n -> Alphabet] : n \in 0..MaxLen}

InitKey ==
    /\ sessions = {DEFAULT_SESSION_CODE}
    /\ edges = seedEdges(1, {})
    /\ session_edges = seedSessionEdges
    /\ res = NoResponse
    /\ emitted = {}
    /\ req = NoRequest
    /\ inflight = <<>>
    /\ probe \in {[a |-> a, b |-> b, done |-> FALSE] : a \in Strings, b \in Strings}
    /\ client = InitialClient([clientWidth |-> 0, clientHeight |-> 0])
    /\ sockets = Connected

Canonicalize ==
    /\ ~probe.done
    /\ probe' = [a |-> probe.a, b |-> probe.b, done |-> TRUE,
                 pair |-> normalizePair(probe.a, probe.b),
                 forward |-> buildEdgeKey(probe.a, probe.b),
                 backward |-> buildEdgeKey(probe.b, probe.a)]
    /\ UNCHANGED <<sessions, edges, session_edges, res, emitted, req, inflight, client, sockets>>

NextKey == Canonicalize

SpecKey == InitKey /\ [][NextKey]_vars

(***************************************************************************)
(* The client script on its own: a browser is handed one snapshot, renders *)
(* it and is switched between the view modes.  The snapshot is getGraph's  *)
(* result on a list of at most MaxEdges rows over four concepts, no two    *)
(* rows for the same pair; strictly descending weights make every such row *)
(* order one that ORDER BY weight DESC returns.                            *)
(***************************************************************************)
\* 'a', 'b', 'c', 'd'
ViewConcepts == {<<97>>, <<98>>, <<99>>, <<100>>}

PairRows ==
    {[concept_a |-> a, concept_b |-> b, weight |-> 1] :
        a \in ViewConcepts, b \in ViewConcepts} \ 
    {[concept_a |-> a, concept_b |-> a, weight |-> 1] : a \in ViewConcepts}

RECURSIVE RowLists(_)
RowLists(n) ==
    IF n = 0 THEN {<<>>}
    ELSE {Append(x[1], x[2]) :
            x \in {y \in RowLists(n - 1) \X PairRows :
                     \A i \in 1..Len(y[1]) :
                        {y[1][i].concept_a, y[1][i].concept_b}
                           # {y[2].concept_a, y[2].concept_b}}}

Weighted(rows) == [i \in 1..Len(rows) |-> [rows[i] EXCEPT !.weight = Len(rows) - i + 1]]

\* a fifth concept, "e", for the stars
Fifth == <<101>>

RECURSIVE Orders(_)
Orders(S) ==
    IF S = {} THEN {<<>>}
    ELSE UNION {{<<x>> \o o : o \in Orders(S \ {x})} : x \in S}

\* the rows of a hub joined to the four other concepts, in every order,
\* the hub being the first or the second concept of each row
StarRows ==
    UNION {{[i \in 1..4 |->
                IF hubFirst
                THEN [concept_a |-> hub, concept_b |-> o[i], weight |-> 1]
                ELSE [concept_a |-> o[i], concept_b |-> hub, weight |-> 1]] :
             o \in Orders((ViewConcepts \cup {Fifth}) \ {hub}), hubFirst \in BOOLEAN} :
           hub \in {<<97>>, Fifth}}

\* the rows of a joined to b, c and d in every order, and then one of b, c
\* and d joined to e
TailedRows ==
    {<<[concept_a |-> <<97>>, concept_b |-> o[1], weight |-> 1],
       [concept_a |-> <<97>>, concept_b |-> o[2], weight |-> 1],
       [concept_a |-> <<97>>, concept_b |-> o[3], weight |-> 1],
       [concept_a |-> o[t], concept_b |-> Fifth, weight |-> 1]>> :
        o \in Orders(ViewConcepts \ {<<97>>}), t \in 1..3}

Snapshots ==
    {graphOfRows(Weighted(rows)) : rows \in UNION {RowLists(n) : n \in 0..MaxEdges}}
    \cup {graphOfRows(Weighted(rows)) : rows \in StarRows \cup TailedRows}

\* clientWidth and clientHeight of the #graph element: not laid out yet, or
\* 300 by 200
Containers ==
    {[clientWidth |-> 0, clientHeight |-> 0], [clientWidth |-> 300, clientHeight |-> 200]}

ViewModes == {"free", "focused", "hierarchy"}

InitView ==
    /\ sessions = {DEFAULT_SESSION_CODE}
    /\ edges = seedEdges(1, {})
    /\ session_edges = seedSessionEdges
    /\ res = NoResponse
    /\ emitted = {}
    /\ req = NoRequest
    /\ inflight = <<>>
    /\ probe = <<>>
    /\ client \in {[InitialClient(container) EXCEPT
                        !.inbox = <<[op |-> "showExample", code |-> DEFAULT_SESSION_CODE,
                                     session |-> DEFAULT_SESSION_CODE, graph |-> graph]>>] :
                      container \in Containers, graph \in Snapshots}
    /\ sockets = Connected

\* the socket of the browser, and its session_id cookie
ClientSocket == "k1"

ClientSessionId == "s1"

\* joinSession and showExample once fetchSessionGraph has returned: the
\* socket events, then applyGraphResponse(payload, isExample)
ApplyGraphResponse ==
    /\ client.inbox # <<>>
    /\ Head(client.inbox).op \in {"joinSession", "showExample"}
    /\ LET payload == Head(client.inbox)
           moved == IF payload.op = "joinSession"
                    THEN joinSocketSession(client, payload.code)
                    ELSE leaveActiveSession(client)
       IN  /\ Len(sockets[ClientSocket].events) + Len(moved.emits) <= MaxEvents
           /\ client' = [applyGraphResponse(moved.client, payload,
                                            payload.op = "showExample")
                           EXCEPT !.inbox = Tail(client.inbox)]
           /\ sockets' = [sockets EXCEPT ![ClientSocket].events = @ \o moved.emits]
    /\ UNCHANGED <<sessions, edges, session_edges, res, emitted, req, inflight, probe>>

\* handleViewToggle: a click on one of the three view buttons
ViewToggle(mode) ==
    /\ client' = applyViewMode(client, mode)
    /\ UNCHANGED <<sessions, edges, session_edges, res, emitted, req, inflight, probe, sockets>>

NextView ==
    \/ ApplyGraphResponse
    \/ \E mode \in ViewModes : ViewToggle(mode)

SpecView == InitView /\ [][NextView]_vars

(***************************************************************************)
(* The server with its connections, the browser of client on the           *)
(* connection ClientSocket, a second browser that submits, and a consumer  *)
(* on the second connection.  A request of the browser and the handler     *)
(* that serves it are one step; the response, the events the browser emits *)
(* and the events emitted to it are in flight until they are handled.      *)
(* createSession continues as joinSession does, with the code the server   *)
(* has drawn; showExample is not among the steps.                          *)
(***************************************************************************)
OtherSocket == "k2"

OtherSessionId == "s2"

\* no connection has MaxSent graph:update events in flight
QueuesOpen == \A k \in Sockets : Len(sockets[k].sent) < MaxSent

\* socket.on('session:join') and socket.on('session:leave') on the event m
\* of connection k, remaining being the events of k still to be handled
ServeEvent(k, m, remaining) ==
    /\ req' = [op |-> m.event, code |-> m.code, sessionId |-> k, body |-> NoBody]
    /\ res' = NoResponse
    /\ \E emission \in (IF m.event = "session:join"
                         THEN joinEmissions(edges, sessions, k, m.code) ELSE {{}}) :
           emitted' = emission
    /\ sockets' =
          ioEmit([(IF m.event = "session:join"
                   THEN sessionJoin(sockets, sessions, k, m.code)
                   ELSE sessionLeave(sockets, k, m.code))
                     EXCEPT ![k].events = remaining],
                 emitted')
    /\ UNCHANGED <<sessions, edges, session_edges, inflight, probe, client>>

\* the server handles the oldest event the browser has emitted
OnSocketEvent ==
    /\ sockets[ClientSocket].events # <<>>
    /\ QueuesOpen
    /\ ServeEvent(ClientSocket, Head(sockets[ClientSocket].events),
                  Tail(sockets[ClientSocket].events))

\* a consumer emits session:join on connection k, and the server handles it
SessionJoin(k, code) ==
    /\ QueuesOpen
    /\ ServeEvent(k, [event |-> "session:join", code |-> code], sockets[k].events)

\* a consumer emits session:leave on connection k, and the server handles it
SessionLeave(k, code) ==
    ServeEvent(k, [event |-> "session:leave", code |-> code], sockets[k].events)

\* the consumer on connection k takes the oldest graph:update event
Receive(k) ==
    /\ sockets[k].sent # <<>>
    /\ sockets' = [sockets EXCEPT ![k].sent = Tail(@)]
    /\ UNCHANGED <<sessions, edges, session_edges, res, emitted, req, inflight, probe,
                   client>>

\* socket.on('graph:update') of the browser
GraphUpdate ==
    /\ sockets[ClientSocket].sent # <<>>
    /\ client' = IF client.session = {} \/ client.activeSessionCode = {} THEN client
                 ELSE renderGraph(client, Head(sockets[ClientSocket].sent))
    /\ sockets' = [sockets EXCEPT ![ClientSocket].sent = Tail(@)]
    /\ UNCHANGED <<sessions, edges, session_edges, res, emitted, req, inflight, probe>>

\* fetchSessionGraph(code) and the function that awaits it
Fetch(op, code) ==
    /\ Len(client.inbox) < MaxPending
    /\ GetSessionGraph(code)
    /\ client' = IF res'.http # 200 THEN client
                 ELSE [client EXCEPT
                         !.inbox = Append(@, [op |-> op, code |-> code,
                                              session |-> validateSessionCode(code).value,
                                              graph |-> CHOOSE graph \in res'.graph : TRUE])]

\* joinSession(code), from the join form or from ?code= at bootstrap, up to
\* its await
JoinSession(code) == Fetch("joinSession", toLowerCase(trim(code)))

\* resetToLanding: the DataSets are cleared, state.graph is not
ResetToLanding ==
    LET left == leaveActiveSession(client)
    IN  /\ Len(sockets[ClientSocket].events) + Len(left.emits) <= MaxEvents
        /\ client' = [left.client EXCEPT !.session = {}, !.isExample = FALSE,
                                         !.layout = EmptyMap]
        /\ sockets' = [sockets EXCEPT ![ClientSocket].events = @ \o left.emits]
        /\ UNCHANGED <<sessions, edges, session_edges, res, emitted, req, inflight, probe>>

\* the submit listener of the concept form up to its await: nothing is sent
\* in the example view, without a session, or for concepts the script
\* refuses
FormSubmit(source, target) ==
    /\ client.session # {}
    /\ ~client.isExample
    /\ trim(source) # <<>>
    /\ trim(target) # <<>>
    /\ toLowerCase(trim(source)) # toLowerCase(trim(target))
    /\ Len(client.inbox) < MaxPending
    /\ QueuesOpen
    /\ PostSubmit(CHOOSE code \in client.session : TRUE, ClientSessionId,
                  [source |-> trim(source), target |-> trim(target)])
    /\ client' = IF res'.http \notin 200..299 \/ res'.graph = {} THEN client
                 ELSE [client EXCEPT
                         !.inbox = Append(@, [op |-> "submit",
                                              code |-> CHOOSE code \in client.session : TRUE,
                                              session |-> CHOOSE code \in client.session : TRUE,
                                              graph |-> CHOOSE graph \in res'.graph : TRUE])]

\* the submit listener once the response has arrived: renderGraph(result.graph)
SubmitResponse ==
    /\ client.inbox # <<>>
    /\ Head(client.inbox).op = "submit"
    /\ client' = [renderGraph(client, Head(client.inbox).graph)
                    EXCEPT !.inbox = Tail(client.inbox)]
    /\ UNCHANGED <<sessions, edges, session_edges, res, emitted, req, inflight, probe,
                   sockets>>

\* what is typed into the join form: the code of the created session, or a
\* blank
LiveCodes == {NewCode, <<32>>}

\* what is typed into the concept form: (trust, conflict),
\* (conflict, " Trust "), and (" Trust ", trust), which the script refuses
LivePairs ==
    {<<<<116, 114, 117, 115, 116>>,
       <<99, 111, 110, 102, 108, 105, 99, 116>> >>,
     <<<<99, 111, 110, 102, 108, 105, 99, 116>>,
       <<32, 84, 114, 117, 115, 116, 32>> >>,
     <<<<32, 84, 114, 117, 115, 116, 32>>, <<116, 114, 117, 115, 116>> >>}

NextLive ==
    \/ \E code \in LiveCodes : JoinSession(code)
    \/ ApplyGraphResponse
    \/ ResetToLanding
    \/ \E pair \in LivePairs : FormSubmit(pair[1], pair[2])
    \/ SubmitResponse
    \/ GraphUpdate
    \/ \E mode \in ViewModes : ViewToggle(mode)
    \/ OnSocketEvent
    \/ \E code \in LiveCodes, body \in ConcBodies :
           QueuesOpen /\ Submit(code, OtherSessionId, body)
    \/ CreateSession

SpecLive == Init /\ [][NextLive]_vars

(***************************************************************************)
(* The server and its connections alone: consumers join and leave rooms    *)
(* and take the events emitted to them, browsers submit.                   *)
(***************************************************************************)
NextPush ==
    \/ \E k \in Sockets, code \in RawCodes : SessionJoin(k, code)
    \/ \E k \in Sockets, code \in RawCodes : SessionLeave(k, code)
    \/ \E k \in Sockets : Receive(k)
    \/ \E code \in LiveCodes, sessionId \in SessionIds, body \in ConcBodies :
           QueuesOpen /\ Submit(code, sessionId, body)
    \/ CreateSession

SpecPush == Init /\ [][NextPush]_vars

(***************************************************************************)
(* The server and its connections, with the graph reads: every route and   *)
(* every socket event that takes a session code, given the codes of the    *)
(* demo room and of the session to create, and a blank code.               *)
(***************************************************************************)
NextRefuse ==
    \/ NextPush
    \/ \E code \in RawCodes : GetGraph(code)

SpecRefuse == Init /\ [][NextRefuse]_vars

(***************************************************************************)
(* The browser moving between sessions: it joins the demo room or the      *)
(* created session by their codes, opens the example view and goes back to *)
(* the landing page, while a second browser submits to both sessions.      *)
(***************************************************************************)
\* showExample up to its await
ShowExample == Fetch("showExample", DEFAULT_SESSION_CODE)

\* the codes typed into the join form
SwitchCodes == {DEFAULT_SESSION_CODE, NewCode}

\* what the second browser submits: (trust, cooperation)
SwitchBody ==
    [source |-> <<116, 114, 117, 115, 116>>,
     target |-> <<99, 111, 111, 112, 101, 114, 97, 116, 105, 111, 110>>]

NextSwitch ==
    \/ \E code \in SwitchCodes : JoinSession(code)
    \/ ShowExample
    \/ ApplyGraphResponse
    \/ ResetToLanding
    \/ GraphUpdate
    \/ OnSocketEvent
    \/ \E code \in SwitchCodes : QueuesOpen /\ Submit(code, OtherSessionId, SwitchBody)
    \/ CreateSession

SpecSwitch == Init /\ [][NextSwitch]_vars

(***************************************************************************)
(* The server with two browsers that submit, to the created session, pairs *)
(* that leave several concepts with the same number of neighbours.         *)
(***************************************************************************)
\* (trust, cooperation), (conflict, violence), (cooperation, conflict)
TieBodies ==
    {[source |-> <<116, 114, 117, 115, 116>>,
      target |-> <<99, 111, 111, 112, 101, 114, 97, 116, 105, 111, 110>>],
     [source |-> <<99, 111, 110, 102, 108, 105, 99, 116>>,
      target |-> <<118, 105, 111, 108, 101, 110, 99, 101>>],
     [source |-> <<99, 111, 111, 112, 101, 114, 97, 116, 105, 111, 110>>,
      target |-> <<99, 111, 110, 102, 108, 105, 99, 116>>]}

NextTies ==
    \/ \E sessionId \in SessionIds, body \in TieBodies : Submit(NewCode, sessionId, body)
    \/ GetGraph(NewCode)
    \/ CreateSession

SpecTies == Init /\ [][NextTies]_vars

(***************************************************************************)
(* Vocabulary of the properties                                            *)
(***************************************************************************)
Trust == <<116, 114, 117, 115, 116>>

TrustSpaced == <<32, 84, 114, 117, 115, 116, 32>>

Cooperation == <<99, 111, 111, 112, 101, 114, 97, 116, 105, 111, 110>>

\* a concept text in canonical form: trimmed and lower-cased
Canonical(text) == toLowerCase(trim(text))

HasBoth(body) == DOMAIN body = {"source", "target"}

\* the body names two non-empty, distinct concepts
ValidConcepts(body) ==
    /\ HasBoth(body)
    /\ Canonical(body.source) # <<>>
    /\ Canonical(body.target) # <<>>
    /\ Canonical(body.source) # Canonical(body.target)

\* the unordered pair of concepts a valid body names
ConceptPair(body) == {Canonical(body.source), Canonical(body.target)}

\* the scope a request addresses, when its code is well formed and the session exists
Addresses(r, Sess, scope) ==
    /\ validateSessionCode(r.code).ok
    /\ validateSessionCode(r.code).value = scope
    /\ scope \in Sess

RecordsOf(SE, scope, edgeKey) ==
    {r \in SE : r.session_code = scope /\ r.edge_key = edgeKey}

\* the weight of an edge key in a scope, 0 when the scope has no such edge
WeightOf(E, scope, edgeKey) ==
    IF \E e \in E : e.session_code = scope /\ e.edge_key = edgeKey
    THEN (CHOOSE e \in E : e.session_code = scope /\ e.edge_key = edgeKey).weight
    ELSE 0

\* the rows of a table that belong to other scopes than the given one
Outside(T, scope) == {r \in T : r.session_code # scope}

(***************************************************************************)
(* C1: after any sequence of submits the weight of every edge equals the   *)
(* number of distinct session ids holding a submission record for its      *)
(* (scope, edge key); a scope whose records all name one pair, held by N   *)
(* sessions, has a graph of 2 nodes and 1 edge of weight N.                *)
(***************************************************************************)
C1_WeightAccuracy ==
    /\ \A e \in edges :
          e.weight = Cardinality({r.session_id :
                                    r \in RecordsOf(session_edges, e.session_code, e.edge_key)})
    /\ \A scope \in sessions :
          LET recs == {r \in session_edges : r.session_code = scope}
          IN  (recs # {} /\ \A r1, r2 \in recs : r1.edge_key = r2.edge_key)
              => \A graph \in getGraph(edges, scope) :
                    /\ Len(graph.nodes) = 2
                    /\ Len(graph.edges) = 1
                    /\ graph.edges[1].weight = Cardinality({r.session_id : r \in recs})

\* both browsers have submitted the pair to the new room, the second just now
C1_TwoSessionsWeightTwo ==
    /\ res.status = "ok"
    /\ \E graph \in res.graph :
          /\ Len(graph.nodes) = 2
          /\ Len(graph.edges) = 1
          /\ graph.edges[1].weight = 2
    /\ \A sessionId \in SessionIds :
          \E r \in session_edges : r.session_code = NewCode /\ r.session_id = sessionId

(***************************************************************************)
(* C2: a submit by the same session to the same scope with the same pair   *)
(* (either order, any casing or surrounding whitespace) right after a      *)
(* recorded one is answered duplicate and changes no weight; a first       *)
(* submit is recorded (status ok, 201) and raises the weight by exactly 1. *)
(***************************************************************************)
C2_RecordedThenDuplicate ==
    [][/\ (/\ req.op = "submit" /\ res.status = "ok"
           /\ req'.op = "submit"
           /\ req'.sessionId = req.sessionId
           /\ validateSessionCode(req'.code) = validateSessionCode(req.code)
           /\ ValidConcepts(req'.body)
           /\ ConceptPair(req'.body) = ConceptPair(req.body))
          => (/\ res'.status = "duplicate"
              /\ res'.http = 200
              /\ edges' = edges
              /\ session_edges' = session_edges)
       /\ \A scope \in sessions :
             (/\ req'.op = "submit"
              /\ Addresses(req', sessions, scope)
              /\ ValidConcepts(req'.body)
              /\ \A r \in session_edges :
                    ~(/\ r.session_id = req'.sessionId
                      /\ r.session_code = scope
                      /\ \E e \in edges :
                            /\ e.session_code = scope
                            /\ e.edge_key = r.edge_key
                            /\ {e.concept_a, e.concept_b} = ConceptPair(req'.body)))
             => (/\ res'.status = "ok"
                 /\ res'.http = 201
                 /\ \E k \in {r.edge_key : r \in session_edges' \ session_edges} :
                       WeightOf(edges', scope, k) = WeightOf(edges, scope, k) + 1)
      ]_vars

\* the session recorded (trust, cooperation) in the new room and then sent
\* (cooperation, " Trust "): the reversed, re-cased pair is a duplicate
C2_ReversedRecasedDuplicate ==
    /\ res.status = "duplicate"
    /\ req.code = NewCode
    /\ req.body = [source |-> Cooperation, target |-> TrustSpaced]
    /\ \E e \in edges :
          /\ e.session_code = NewCode
          /\ e.concept_a = Trust
          /\ e.concept_b = Cooperation
          /\ e.weight = 1
    /\ {r.session_id : r \in {x \in session_edges : x.session_code = NewCode}}
          = {req.sessionId}

(***************************************************************************)
(* C3: when submits for one scope and one edge key are in flight at once,  *)
(* under every interleaving of their statements the weight counts every    *)
(* recorded session once: each edge's weight plus the upserts still to     *)
(* run equals the number of distinct sessions recorded for it, so when no  *)
(* request is in flight the weight equals that number.                     *)
(***************************************************************************)
PendingUpserts(scope, edgeKey) ==
    {k \in DOMAIN inflight :
        /\ inflight[k].pc = "upsertEdge"
        /\ inflight[k].plan.sessionCode = scope
        /\ inflight[k].plan.edgeKey = edgeKey}

C3_ConcurrentWeight ==
    /\ \A r \in session_edges :
          WeightOf(edges, r.session_code, r.edge_key)
             + Cardinality(PendingUpserts(r.session_code, r.edge_key))
          = Cardinality({x.session_id :
                           x \in RecordsOf(session_edges, r.session_code, r.edge_key)})
    /\ \A e \in edges :
          RecordsOf(session_edges, e.session_code, e.edge_key) # {}
    /\ DOMAIN inflight = {} =>
          \A e \in edges :
             e.weight = Cardinality({r.session_id :
                           r \in RecordsOf(session_edges, e.session_code, e.edge_key)})

\* two requests of different sessions for the same edge of the same scope
\* have both passed the duplicate check and inserted their record; neither
\* has run its upsert yet
C3_TwoRecordedBeforeUpsert ==
    \E k1, k2 \in DOMAIN inflight :
       /\ inflight[k1].sessionId # inflight[k2].sessionId
       /\ inflight[k1].plan.sessionCode = inflight[k2].plan.sessionCode
       /\ inflight[k1].plan.edgeKey = inflight[k2].plan.edgeKey
       /\ inflight[k1].pc = "upsertEdge"
       /\ inflight[k2].pc = "upsertEdge"

(***************************************************************************)
(* C4: the submit mutation is all-or-nothing: a submit that ends in a      *)
(* storage failure leaves the edge weights and the submission records as   *)
(* they were before the call.                                              *)
(***************************************************************************)
C4_AllOrNothing ==
    [][(req'.op = "submit" /\ res' = ServerError)
          => (edges' = edges /\ session_edges' = session_edges)]_vars

(***************************************************************************)
(* C5: a submit whose source or target is missing, empty after trimming,   *)
(* or whose concepts normalize to the same string gets an error response   *)
(* and mutates nothing: no record, no edge, no weight change, no push.     *)
(***************************************************************************)
C5_InvalidRejected ==
    [][(req'.op = "submit" /\ ~ValidConcepts(req'.body))
          => (/\ res'.http \in {400, 404}
              /\ res'.error # ""
              /\ res'.status = ""
              /\ res'.graph = {}
              /\ edges' = edges
              /\ session_edges' = session_edges
              /\ emitted' = {})]_vars

\* "trust" with " Trust " sent to a room that exists: refused as not distinct
C5_SameConceptRefused ==
    /\ req.op = "submit"
    /\ req.body = [source |-> Trust, target |-> TrustSpaced]
    /\ validateSessionCode(req.code).value \in sessions
    /\ res = ErrorResponse(400, "Concepts must be non-empty and distinct.")

(***************************************************************************)
(* C6: for all texts a and b whose normalized forms are non-empty and      *)
(* distinct, the edge key of (a, b) equals the edge key of (b, a).         *)
(***************************************************************************)
C6_KeySymmetric ==
    (/\ probe.done
     /\ Canonical(probe.a) # <<>>
     /\ Canonical(probe.b) # <<>>
     /\ Canonical(probe.a) # Canonical(probe.b))
    => (/\ probe.forward = probe.backward
        /\ probe.pair.ok
        /\ probe.pair.edgeKey = probe.forward)

\* "b" and " A": the key is a::b in both orders
C6_SwappedPairKeyed ==
    /\ probe.done
    /\ probe.a = <<98>>
    /\ probe.b = <<32, 65>>
    /\ probe.forward = <<97, 58, 58, 98>>
    /\ probe.backward = <<97, 58, 58, 98>>

(***************************************************************************)
(* C7: two texts that normalize to the same concept (same text up to       *)
(* casing and surrounding whitespace) are refused by the canonicalization  *)
(* of the submit path: it yields no edge key.                              *)
(***************************************************************************)
C7_SameConceptNoKey ==
    (probe.done /\ Canonical(probe.a) = Canonical(probe.b))
    => (~probe.pair.ok /\ probe.pair.edgeKey = <<>>)

\* "A " with " a"
C7_RecasedSameConcept ==
    /\ probe.done
    /\ probe.a = <<65, 32>>
    /\ probe.b = <<32, 97>>
    /\ ~probe.pair.ok

(***************************************************************************)
(* C8: the edge key is injective on unordered pairs: two different         *)
(* unordered pairs of normalized concepts that the submit path accepts     *)
(* never get the same edge key.                                            *)
(***************************************************************************)
C8_KeyInjective ==
    (probe.done /\ probe.pair.ok)
    => \A c \in Strings, d \in Strings :
          LET other == normalizePair(c, d)
          IN  (other.ok /\ other.edgeKey = probe.pair.edgeKey)
              => {other.source, other.target} = {probe.pair.source, probe.pair.target}

(***************************************************************************)
(* C9: scopes are isolated: a submit to one scope changes no edge, weight  *)
(* or submission record of another scope; a returned snapshot holds only   *)
(* edges submitted to its scope; a record of (session, edge key) in one    *)
(* scope does not make the session's submit of that pair to another scope  *)
(* a duplicate.                                                            *)
(***************************************************************************)
C9_ScopesIsolated ==
    [][\A scope \in sessions :
          (req'.op \in {"submit", "graph"} /\ Addresses(req', sessions, scope))
          => (/\ Outside(edges', scope) = Outside(edges, scope)
              /\ Outside(session_edges', scope) = Outside(session_edges, scope)
              /\ \A graph \in res'.graph :
                    \A i \in 1..Len(graph.edges) :
                       \E e \in edges' :
                          /\ e.session_code = scope
                          /\ graph.edges[i] =
                                [from |-> e.concept_a, to |-> e.concept_b, weight |-> e.weight]
                          /\ RecordsOf(session_edges', scope, e.edge_key) # {}
              /\ (/\ req'.op = "submit"
                  /\ ValidConcepts(req'.body)
                  /\ \A r \in session_edges :
                        (r.session_id = req'.sessionId /\ r.session_code = scope)
                        => \A e \in edges :
                              (e.session_code = scope /\ e.edge_key = r.edge_key)
                              => {e.concept_a, e.concept_b} # ConceptPair(req'.body))
                 => res'.status = "ok")
      ]_vars

\* a session that holds the pair's record in the demo room has just had the
\* same pair recorded in the new room
C9_SamePairTwoScopes ==
    /\ req.op = "submit"
    /\ req.code = NewCode
    /\ res.status = "ok"
    /\ \E r1, r2 \in session_edges :
          /\ r1.session_id = req.sessionId
          /\ r2.session_id = req.sessionId
          /\ r1.session_code = DEFAULT_SESSION_CODE
          /\ r2.session_code = NewCode
          /\ r1.edge_key = r2.edge_key

(***************************************************************************)
(* C10: a submit that finds (session id, edge key) already recorded for    *)
(* the scope changes no weight and no submission record and is answered    *)
(* duplicate, with the scope's current snapshot.                           *)
(***************************************************************************)
C10_DuplicateNoChange ==
    [][\A scope \in sessions :
          (/\ req'.op = "submit"
           /\ Addresses(req', sessions, scope)
           /\ ValidConcepts(req'.body)
           /\ \E r \in session_edges :
                 /\ r.session_id = req'.sessionId
                 /\ r.session_code = scope
                 /\ \E e \in edges :
                       /\ e.session_code = scope
                       /\ e.edge_key = r.edge_key
                       /\ {e.concept_a, e.concept_b} = ConceptPair(req'.body))
          => (/\ edges' = edges
              /\ session_edges' = session_edges
              /\ res'.http = 200
              /\ res'.status = "duplicate"
              /\ res'.graph # {}
              /\ res'.graph \subseteq getGraph(edges', scope)
              /\ emitted' = {})
      ]_vars

\* a duplicate in the demo room, answered with the room's snapshot of eight edges
C10_DuplicateWithSnapshot ==
    /\ req.op = "submit"
    /\ req.code = DEFAULT_SESSION_CODE
    /\ res.status = "duplicate"
    /\ \E graph \in res.graph :
          /\ Len(graph.edges) = Len(samples)
          /\ \E i \in 1..Len(graph.edges) :
                /\ graph.edges[i].from = Trust
                /\ graph.edges[i].to = Cooperation
                /\ graph.edges[i].weight = 2

(***************************************************************************)
(* C11: in every snapshot getGraph produces (for any scope, and those sent *)
(* in a response or pushed) both endpoints of every edge are members of    *)
(* nodes, and every member of nodes is an endpoint of at least one edge.   *)
(***************************************************************************)
EndpointsOf(graph) ==
    UNION {{graph.edges[i].from, graph.edges[i].to} : i \in 1..Len(graph.edges)}

C11_NodesAreEndpoints ==
    \A graph \in UNION {getGraph(edges, scope) : scope \in sessions}
                    \cup res.graph \cup {m.graph : m \in emitted} :
       Range(graph.nodes) = EndpointsOf(graph)

\* the new room's first edge, sent as (cooperation, " Trust "): two nodes,
\* both its endpoints
C11_FirstEdgeTwoNodes ==
    /\ res.status = "ok"
    /\ req.code = NewCode
    /\ \E graph \in res.graph :
          /\ graph.nodes = <<Cooperation, Trust>>
          /\ Len(graph.edges) = 1
          /\ graph.edges[1].from = Cooperation
          /\ graph.edges[1].to = Trust

(***************************************************************************)
(* C12: across every step an edge of a scope stays an edge of that scope,  *)
(* with a weight of at least 1 that does not decrease; a snapshot returned *)
(* for the scope at that step holds every edge the scope had before, with  *)
(* a weight no smaller than before.                                        *)
(***************************************************************************)
C12_EdgesPersistWeightsGrow ==
    [][/\ \A e \in edges :
             /\ e.weight >= 1
             /\ \E f \in edges' :
                   /\ f.session_code = e.session_code
                   /\ f.edge_key = e.edge_key
                   /\ f.concept_a = e.concept_a
                   /\ f.concept_b = e.concept_b
                   /\ f.weight >= e.weight
       /\ \A f \in edges' : f.weight >= 1
       /\ \A scope \in sessions :
             (req'.op \in {"submit", "graph"} /\ Addresses(req', sessions, scope))
             => \A graph \in res'.graph :
                   \A e \in edges :
                      e.session_code = scope
                      => \E i \in 1..Len(graph.edges) :
                            /\ graph.edges[i].from = e.concept_a
                            /\ graph.edges[i].to = e.concept_b
                            /\ graph.edges[i].weight >= e.weight
      ]_vars

\* the seeded edge trust - cooperation has been raised to weight 3 and the
\* demo room's snapshot still holds all eight seeded edges
C12_SeededEdgeRaisedTwice ==
    /\ res.status = "ok"
    /\ req.code = DEFAULT_SESSION_CODE
    /\ \E graph \in res.graph :
          /\ Len(graph.edges) = Len(samples)
          /\ \E i \in 1..Len(graph.edges) :
                /\ graph.edges[i].from = Trust
                /\ graph.edges[i].to = Cooperation
                /\ graph.edges[i].weight = 3

(***************************************************************************)
(* Vocabulary of the analytics properties: degree, neighbours and distance *)
(* read off a snapshot directly                                            *)
(***************************************************************************)
\* the number of edges of the snapshot the node is an endpoint of
IncidentEdges(graph, n) ==
    Cardinality({i \in 1..Len(graph.edges) : n \in {graph.edges[i].from, graph.edges[i].to}})

\* the nodes joined to n by an edge, in either direction
NeighboursOf(graph, n) ==
    ({graph.edges[i].to : i \in {j \in 1..Len(graph.edges) : graph.edges[j].from = n}}
     \cup {graph.edges[i].from : i \in {j \in 1..Len(graph.edges) : graph.edges[j].to = n}})
    \ {n}

\* the nodes at most k edges away from the node
RECURSIVE Ball(_, _, _)
Ball(graph, n, k) ==
    IF k = 0 THEN {n}
    ELSE LET inner == Ball(graph, n, k - 1)
         IN  inner \cup UNION {NeighboursOf(graph, o) : o \in inner}

ReachableFrom(graph, n) == Ball(graph, n, Len(graph.nodes))

\* the client has rendered a snapshot with at least one node
Rendered == client.inbox = <<>> /\ client.graph.nodes # <<>>

A == <<97>>

B == <<98>>

(***************************************************************************)
(* C13: for every non-empty snapshot the client has analysed, the hub has  *)
(* at least as many incident edges as every other node.                    *)
(***************************************************************************)
C13_HubHasMaxDegree ==
    client.graph.nodes # <<>>
    => \E hub \in client.metrics.hubId :
          /\ hub \in Range(client.graph.nodes)
          /\ \A n \in Range(client.graph.nodes) :
                IncidentEdges(client.graph, hub) >= IncidentEdges(client.graph, n)

\* nodes a, b, c with edges a - b and c - b: the hub is b, the second node
C13_HubIsSecondNode ==
    /\ Rendered
    /\ client.graph.nodes = <<A, B, <<99>>>>
    /\ client.metrics.hubId = {B}
    /\ IncidentEdges(client.graph, B) = 2

(***************************************************************************)
(* C14: when several nodes are tied for maximum degree, the hub is the     *)
(* tied node whose identity sorts first lexicographically.                 *)
(***************************************************************************)
C14_TieGoesToLexFirst ==
    client.graph.nodes # <<>>
    => \A hub \in client.metrics.hubId :
          \A n \in Range(client.graph.nodes) :
             IncidentEdges(client.graph, n) = IncidentEdges(client.graph, hub)
             => ~StrLess(n, hub)

(***************************************************************************)
(* C15: for every analysed snapshot level[hub] = 0 and every node          *)
(* reachable from the hub has as level the length of a shortest path from  *)
(* the hub.                                                                *)
(***************************************************************************)
C15_LevelsAreShortestPaths ==
    \A hub \in client.metrics.hubId :
       /\ hub \in DOMAIN client.metrics.distances
       /\ client.metrics.distances[hub] = 0
       /\ \A n \in ReachableFrom(client.graph, hub) :
             \A k \in 0..Len(client.graph.nodes) :
                (/\ n \in Ball(client.graph, hub, k)
                 /\ (k = 0 \/ n \notin Ball(client.graph, hub, k - 1)))
                => (/\ n \in DOMAIN client.metrics.distances
                    /\ client.metrics.distances[n] = k)

\* a path of three edges: some node is two edges away from the hub
C15_NodeTwoEdgesAway ==
    /\ Rendered
    /\ \E hub \in client.metrics.hubId, n \in Range(client.graph.nodes) :
          /\ client.metrics.distances[hub] = 0
          /\ n \in DOMAIN client.metrics.distances
          /\ client.metrics.distances[n] = 2
          /\ n \notin NeighboursOf(client.graph, hub)

(***************************************************************************)
(* C16: every node not reachable from the hub gets one and the same        *)
(* sentinel level, strictly greater than every finite level assigned in    *)
(* the snapshot; no reachable node gets the sentinel.                      *)
(***************************************************************************)
C16_UnreachableSentinel ==
    \A hub \in client.metrics.hubId :
       \A n \in Range(client.graph.nodes) :
          IF n \in ReachableFrom(client.graph, hub)
          THEN levelOf(client.metrics.distances, n) # MAX_SAFE_INTEGER
          ELSE /\ levelOf(client.metrics.distances, n) = MAX_SAFE_INTEGER
               /\ \A o \in ReachableFrom(client.graph, hub) :
                     levelOf(client.metrics.distances, o)
                        < levelOf(client.metrics.distances, n)
               /\ \A o \in Range(client.graph.nodes) \ ReachableFrom(client.graph, hub) :
                     levelOf(client.metrics.distances, o)
                        = levelOf(client.metrics.distances, n)

\* two components: two nodes are out of the hub's reach
C16_TwoNodesOutOfReach ==
    /\ Rendered
    /\ \E hub \in client.metrics.hubId :
          Cardinality(Range(client.graph.nodes) \ ReachableFrom(client.graph, hub)) = 2

(***************************************************************************)
(* C17: for every node of every snapshot the aggregator produces, the      *)
(* degree the client computes equals the number of distinct neighbours in  *)
(* its adjacency, whatever the weights; a submit that only raises the      *)
(* weight of an existing edge leaves every degree of the scope as it was.  *)
(* Stated for every step that changes the edges table, on the snapshots of *)
(* the changed scope before and after the step.                            *)
(***************************************************************************)
EdgeKeysOf(E, scope) == {e.edge_key : e \in {x \in E : x.session_code = scope}}

\* the client's degree of every node is the number of its distinct neighbours
DegreesAreNeighbourCounts(graph) ==
    LET metrics == buildMetrics(graph)
    IN  \A n \in Range(graph.nodes) :
           /\ metrics.degrees[n] = Len(metrics.adjacency[n])
           /\ Range(metrics.adjacency[n]) = NeighboursOf(graph, n)
           /\ metrics.degrees[n] = Cardinality(NeighboursOf(graph, n))

C17_DegreeCountsNeighbours ==
    [][\A scope \in {e.session_code : e \in edges' \ edges} :
          /\ \A before \in getGraph(edges, scope) : DegreesAreNeighbourCounts(before)
          /\ \A after \in getGraph(edges', scope) :
                /\ DegreesAreNeighbourCounts(after)
                /\ EdgeKeysOf(edges', scope) = EdgeKeysOf(edges, scope)
                   => \A before \in getGraph(edges, scope) :
                         /\ Range(before.nodes) = Range(after.nodes)
                         /\ buildMetrics(before).degrees = buildMetrics(after).degrees
      ]_vars

\* trust - cooperation of the demo room has been submitted by both browsers
\* (weight 3): trust still has one neighbour and degree 1, cooperation two
C17_WeightThreeDegreeOne ==
    /\ res.status = "ok"
    /\ req.code = DEFAULT_SESSION_CODE
    /\ \E graph \in res.graph :
          /\ \E i \in 1..Len(graph.edges) :
                /\ graph.edges[i].from = Trust
                /\ graph.edges[i].to = Cooperation
                /\ graph.edges[i].weight = 3
          /\ buildMetrics(graph).degrees[Trust] = 1
          /\ buildMetrics(graph).degrees[Cooperation] = 2

(***************************************************************************)
(* C18: on the empty snapshot the analytics are empty degree and adjacency *)
(* maps, no hub and an empty level map, and both the Focused and the       *)
(* Hierarchical layout are the empty position map.                         *)
(***************************************************************************)
C18_EmptySnapshotEmptyResults ==
    (client.graph.nodes = <<>> /\ client.graph.edges = <<>>)
    => (/\ client.metrics = buildMetrics(client.graph)
        /\ client.metrics.degrees = EmptyMap
        /\ client.metrics.adjacency = EmptyMap
        /\ client.metrics.hubId = {}
        /\ client.metrics.distances = EmptyMap
        /\ computeFocusedLayout(client.graph.nodes, client.metrics, client.container)
              = EmptyMap
        /\ computeHierarchyLayout(client.graph.nodes, client.metrics) = EmptyMap
        /\ client.layout = EmptyMap)

\* the empty snapshot has been rendered while the Focused view was active
C18_EmptyRenderedFocused ==
    /\ client.inbox = <<>>
    /\ client.graph = [nodes |-> <<>>, edges |-> <<>>]
    /\ client.activeView = "focused"

(***************************************************************************)
(* C19: in the Focused layout of a non-empty snapshot the hub is placed at *)
(* the origin (ring radius 0), and no other node is placed on the hub's    *)
(* position.                                                               *)
(***************************************************************************)
C19_HubAtOrigin ==
    (Rendered /\ client.activeView = "focused")
    => \A hub \in client.metrics.hubId :
          /\ client.layout[hub].radius = 0
          /\ \A n \in Range(client.graph.nodes) \ {hub} :
                client.layout[n] # client.layout[hub]

RingOf(n) ==
    SelectSeq(client.graph.nodes,
              LAMBDA o : levelOf(client.metrics.distances, o)
                         = levelOf(client.metrics.distances, n))

\* how many nodes of its ring come before n
RingPlace(n) ==
    LET ring == RingOf(n)
    IN  Cardinality({i \in 1..Len(ring) :
                        \E j \in 1..Len(ring) : ring[j] = n /\ i < j})

\* a hub joined to each of four other nodes, and no other edge
IsStar(graph, hub) ==
    /\ Len(graph.nodes) = 5
    /\ Len(graph.edges) = 4
    /\ \A i \in 1..4 : hub \in {graph.edges[i].from, graph.edges[i].to}

\* an angle given as the fraction num / den is d degrees
Degrees(angle, d) == angle.num = d * angle.den

(***************************************************************************)
(* C21: in the Focused layout the i-th node (i = 0..k-1, in ring order) of *)
(* a ring of k nodes is placed at the angle -90 + i * (360 / k) degrees;   *)
(* the four neighbours of the hub of a star have level 1 and are on one    *)
(* ring at -90, 0, 90 and 180 degrees.  The angle is the one the script    *)
(* computes, before the jitter is added to the coordinates.                *)
(***************************************************************************)
C21_RingAnglesEvenlySpaced ==
    (Rendered /\ client.activeView = "focused")
    => /\ \A n \in Range(client.graph.nodes) :
             LET k == Len(RingOf(n))
                 i == RingPlace(n)
             IN  client.layout[n].angle.num * k
                    = (360 * i - 90 * k) * client.layout[n].angle.den
       /\ \A hub \in Range(client.graph.nodes) :
             IsStar(client.graph, hub)
             => LET ring == Range(client.graph.nodes) \ {hub}
                IN  /\ \A n \in ring : client.metrics.distances[n] = 1
                    /\ \A n, o \in ring :
                          client.layout[n].radius = client.layout[o].radius
                    /\ \A d \in {-90, 0, 90, 180} :
                          \E n \in ring : Degrees(client.layout[n].angle, d)

\* the star of hub e with the neighbours c, a, d, b in this order
C21_StarFourNeighbours ==
    /\ Rendered
    /\ client.activeView = "focused"
    /\ IsStar(client.graph, Fifth)
    /\ client.graph.nodes = <<Fifth, <<99>>, <<97>>, <<100>>, <<98>> >>
    /\ Degrees(client.layout[<<99>>].angle, -90)
    /\ Degrees(client.layout[<<97>>].angle, 0)
    /\ Degrees(client.layout[<<100>>].angle, 90)
    /\ Degrees(client.layout[<<98>>].angle, 180)

\* the levels Map of computeHierarchyLayout for the snapshot of the client
ClientLayers == layers(client.graph.nodes, client.metrics.distances)

\* the layer the Hierarchical layout assigns to n
LayerOf(n) ==
    LET sorted == ClientLayers
    IN  sorted[CHOOSE k \in 1..Len(sorted) : n \in Range(sorted[k].ids)].level

(***************************************************************************)
(* C22: in the Hierarchical layout two nodes have the same y-coordinate    *)
(* if and only if they are assigned the same layer.                        *)
(***************************************************************************)
C22_SameYIffSameLayer ==
    (Rendered /\ client.activeView = "hierarchy")
    => \A n, o \in Range(client.graph.nodes) :
          (client.layout[n].y = client.layout[o].y) <=> (LayerOf(n) = LayerOf(o))

\* two nodes of layer 1 side by side, below the hub
C22_TwoInLayerOneBelowHub ==
    /\ Rendered
    /\ client.activeView = "hierarchy"
    /\ \E n, o \in Range(client.graph.nodes), hub \in client.metrics.hubId :
          /\ n # o
          /\ LayerOf(n) = 1
          /\ LayerOf(o) = 1
          /\ client.layout[n].y = client.layout[o].y
          /\ client.layout[hub].y < client.layout[n].y

\* the nodes of the layer of n that are placed at x
PlacedAt(n, x) ==
    {o \in Range(client.graph.nodes) :
        LayerOf(o) = LayerOf(n) /\ client.layout[o].x = x}

(***************************************************************************)
(* C23: in the Hierarchical layout, after the hub has been recentred, the  *)
(* x-coordinates of every layer are symmetric about 0 as a multiset (as    *)
(* many nodes of the layer at -x as at x), and the hub is at x = 0 in the  *)
(* layer of its own level.                                                 *)
(***************************************************************************)
C23_LayersSymmetricHubCentred ==
    (Rendered /\ client.activeView = "hierarchy")
    => /\ \A n \in Range(client.graph.nodes) :
             Cardinality(PlacedAt(n, client.layout[n].x))
                = Cardinality(PlacedAt(n, 0 - client.layout[n].x))
       /\ \A hub \in client.metrics.hubId :
             /\ client.layout[hub].x = 0
             /\ LayerOf(hub) = client.metrics.distances[hub]

\* a layer of three nodes at -180, 0 and 180 under the hub at x = 0
C23_ThreeAcrossUnderHub ==
    /\ Rendered
    /\ client.activeView = "hierarchy"
    /\ \E n \in Range(client.graph.nodes), hub \in client.metrics.hubId :
          /\ LayerOf(n) = 1
          /\ client.layout[hub].x = 0
          /\ PlacedAt(n, -180) # {}
          /\ PlacedAt(n, 0) # {}
          /\ PlacedAt(n, 180) # {}

\* the ringIndex of the ring n is placed on: radius = baseRadius +
\* radiusStep * (ringIndex - 1)
RingIndexOf(n) ==
    LET width == IF client.container.clientWidth = 0 THEN 640
                 ELSE client.container.clientWidth
        height == IF client.container.clientHeight = 0 THEN 480
                  ELSE client.container.clientHeight
        baseRadius == Min(width, height) * 24
        radiusStep == Min(width, height) * 20
    IN  CHOOSE ringIndex \in 0..(Len(client.graph.nodes) + 1) :
           client.layout[n].radius = baseRadius + radiusStep * (ringIndex - 1)

(***************************************************************************)
(* C27: in the Focused layout the unreachable nodes are placed on the ring *)
(* whose index is the largest ring index of a finite level plus 1, and     *)
(* that ring lies strictly outside the ring of every finite level.         *)
(***************************************************************************)
C27_UnreachableOnNextRing ==
    (Rendered /\ client.activeView = "focused")
    => \A n \in Range(client.graph.nodes) \ DOMAIN client.metrics.distances :
          /\ \E o \in DOMAIN client.metrics.distances :
                /\ RingIndexOf(n) = RingIndexOf(o) + 1
                /\ \A q \in DOMAIN client.metrics.distances :
                      RingIndexOf(q) <= RingIndexOf(o)
          /\ \A o \in DOMAIN client.metrics.distances :
                client.layout[n].radius > client.layout[o].radius

\* the nodes of the client's snapshot that the hub does not reach
Unreachable == Range(client.graph.nodes) \ DOMAIN client.metrics.distances

\* the largest level of a node the hub reaches
MaxFiniteLevel ==
    CHOOSE l \in {client.metrics.distances[n] : n \in DOMAIN client.metrics.distances} :
        \A n \in DOMAIN client.metrics.distances : client.metrics.distances[n] <= l

(***************************************************************************)
(* C28: in the Hierarchical layout every node with a finite level is in    *)
(* the layer equal to its level; the unreachable nodes get the layers      *)
(* maxFiniteLevel + 1, maxFiniteLevel + 2, ..., one node in each; the      *)
(* layer numbers are 0..k-1 without gaps; the y-coordinates increase with  *)
(* the layer and are centred around 0.                                     *)
(***************************************************************************)
C28_LayersByLevelThenOneEach ==
    (Rendered /\ client.activeView = "hierarchy")
    => /\ \A n \in DOMAIN client.metrics.distances :
             LayerOf(n) = client.metrics.distances[n]
       /\ {LayerOf(n) : n \in Unreachable}
             = (MaxFiniteLevel + 1)..(MaxFiniteLevel + Cardinality(Unreachable))
       /\ \A n, o \in Unreachable : LayerOf(n) = LayerOf(o) => n = o
       /\ {LayerOf(n) : n \in Range(client.graph.nodes)}
             = 0..(Cardinality({LayerOf(n) : n \in Range(client.graph.nodes)}) - 1)
       /\ \A n, o \in Range(client.graph.nodes) :
             LayerOf(n) < LayerOf(o) => client.layout[n].y < client.layout[o].y
       /\ \A n \in Range(client.graph.nodes) :
             \E o \in Range(client.graph.nodes) :
                /\ client.layout[o].y = 0 - client.layout[n].y
                /\ LayerOf(n) + LayerOf(o)
                      = Cardinality({LayerOf(q) : q \in Range(client.graph.nodes)}) - 1

\* levels 0 and 1 and two unreachable nodes in the layers 2 and 3, the four
\* layers at y = -270, -90, 90, 270
C28_TwoUnreachableTwoLayers ==
    /\ Rendered
    /\ client.activeView = "hierarchy"
    /\ MaxFiniteLevel = 1
    /\ \E n, o \in Unreachable :
          /\ LayerOf(n) = 2
          /\ LayerOf(o) = 3
          /\ client.layout[n].y = 90
          /\ client.layout[o].y = 270

\* degrees.get(n) || 0 of the client's analytics
DegreeOf(n) ==
    IF n \in DOMAIN client.metrics.degrees THEN client.metrics.degrees[n] ELSE 0

(***************************************************************************)
(* C29: within each layer of the Hierarchical layout the nodes are placed  *)
(* from left to right by degree descending, and nodes of equal degree in   *)
(* the lexicographic order of their identities, whatever the order of the  *)
(* nodes in the snapshot.                                                  *)
(***************************************************************************)
C29_DegreeThenIdentityOrder ==
    (Rendered /\ client.activeView = "hierarchy")
    => \A n, o \in Range(client.graph.nodes) :
          (LayerOf(n) = LayerOf(o) /\ n # o)
          => /\ DegreeOf(n) > DegreeOf(o) => client.layout[n].x < client.layout[o].x
             /\ (DegreeOf(n) = DegreeOf(o) /\ StrLess(n, o))
                   => client.layout[n].x < client.layout[o].x

(***************************************************************************)
(* C30: within each layer of the Hierarchical layout, of two nodes the one *)
(* with the strictly higher degree has |x| less than or equal to the |x|   *)
(* of the other.                                                           *)
(***************************************************************************)
C30_HigherDegreeNearerCentre ==
    (Rendered /\ client.activeView = "hierarchy")
    => \A n, o \in Range(client.graph.nodes) :
          (LayerOf(n) = LayerOf(o) /\ DegreeOf(n) > DegreeOf(o))
          => client.layout[n].x * client.layout[n].x
                <= client.layout[o].x * client.layout[o].x

\* this step is a submit to the scope that is answered ok and has added a
\* submission record to it
RecordedIn(scope) ==
    /\ req'.op = "submit"
    /\ res'.status = "ok"
    /\ \E r \in session_edges' \ session_edges : r.session_code = scope

\* this step puts exactly one event in flight to connection k, a snapshot
\* getGraph can return for the scope on the table contents E
PushedTo(k, E, scope) ==
    \E graph \in getGraph(E, scope) :
        sockets'[k].sent = Append(sockets[k].sent, graph)

(***************************************************************************)
(* C24: a step that records a submit to scope S puts one full snapshot of  *)
(* S, taken after the update, in flight to every connection subscribed to  *)
(* S; a step that subscribes a connection to S puts one full snapshot of S *)
(* in flight to that connection; and nothing else is ever put in flight:   *)
(* not to a connection that is not subscribed to S, and not by a duplicate *)
(* or invalid submit.                                                      *)
(***************************************************************************)
C24_PushOnRecordAndOnJoin ==
    [][\A k \in Sockets :
          /\ \A scope \in sessions :
                /\ (RecordedIn(scope) /\ scope \in sockets[k].rooms)
                      => PushedTo(k, edges', scope)
                /\ (scope \notin sockets[k].rooms /\ scope \in sockets'[k].rooms)
                      => PushedTo(k, edges, scope)
          /\ Len(sockets'[k].sent) > Len(sockets[k].sent)
                => \E scope \in sessions :
                      \/ /\ RecordedIn(scope)
                         /\ scope \in sockets[k].rooms
                         /\ PushedTo(k, edges', scope)
                      \/ /\ req' = [op |-> "session:join", code |-> req'.code,
                                    sessionId |-> k, body |-> NoBody]
                         /\ Addresses(req', sessions, scope)
                         /\ scope \in sockets'[k].rooms
                         /\ edges' = edges
                         /\ session_edges' = session_edges
                         /\ PushedTo(k, edges, scope)]_vars

\* a recorded submit to the created session has just been pushed to the
\* first connection, subscribed to it, and not to the second, subscribed to
\* the demo room
C24_PushedToSubscriberOnly ==
    /\ req.op = "submit"
    /\ res.status = "ok"
    /\ sockets["k1"].rooms = {NewCode}
    /\ sockets["k2"].rooms = {DEFAULT_SESSION_CODE}
    /\ sockets["k2"].sent = <<>>
    /\ \E graph \in res.graph :
          /\ emitted = {[room |-> NewCode, graph |-> graph]}
          /\ sockets["k1"].sent = <<graph>>

\* the session of request r has a submission record for the concept pair of
\* its body in the scope
AlreadyCounted(r, scope) ==
    \E s \in session_edges :
        /\ s.session_id = r.sessionId
        /\ s.session_code = scope
        /\ \E e \in edges :
              /\ e.session_code = scope
              /\ e.edge_key = s.edge_key
              /\ {e.concept_a, e.concept_b} = ConceptPair(r.body)

(***************************************************************************)
(* C25: a step changes the edges or the submission records only if it is a *)
(* submit to an existing scope, with two valid concepts, by a session that *)
(* has no record for that pair in the scope, and then it changes them in   *)
(* that scope only.  So getGraph, session:join and session:leave,          *)
(* duplicate and rejected submits, and the steps of the client script      *)
(* (analytics, layouts, view-mode switches) change neither.                *)
(***************************************************************************)
C25_OnlyRecordedSubmitMutates ==
    [][(edges' # edges \/ session_edges' # session_edges)
          => /\ req'.op = "submit"
             /\ \E scope \in sessions :
                   /\ Addresses(req', sessions, scope)
                   /\ ValidConcepts(req'.body)
                   /\ ~AlreadyCounted(req', scope)
                   /\ Outside(edges', scope) = Outside(edges, scope)
                   /\ Outside(session_edges', scope) = Outside(session_edges, scope)
      ]_vars

\* the browser has joined the created session, shows its snapshot in the
\* Focused layout, and has just been answered duplicate in a scope that
\* holds two edges
C25_DuplicateAfterLayout ==
    /\ req.op = "submit"
    /\ req.sessionId = ClientSessionId
    /\ res.status = "duplicate"
    /\ client.activeView = "focused"
    /\ client.graph.nodes # <<>>
    /\ client.layout # EmptyMap
    /\ sockets[ClientSocket].rooms = {NewCode}
    /\ Cardinality({e \in edges : e.session_code = NewCode}) = 2

\* the positions of a snapshot laid out in a view mode: none for an empty
\* snapshot, and none fixed in the free mode
LaidOut(graph, mode) ==
    IF graph.nodes = <<>> \/ mode = "free" THEN EmptyMap
    ELSE IF mode = "hierarchy"
         THEN computeHierarchyLayout(graph.nodes, buildMetrics(graph))
         ELSE computeFocusedLayout(graph.nodes, buildMetrics(graph), client.container)

\* the snapshots this step hands to renderGraph: the graph of a response
\* the script awaited, or of a graph:update event it accepts
ReceivedNow ==
    {client.inbox[i].graph :
        i \in {j \in 1..Len(client.inbox) : j = 1 /\ client'.inbox = Tail(client.inbox)}}
    \cup
    {sockets[ClientSocket].sent[i] :
        i \in {j \in 1..Len(sockets[ClientSocket].sent) :
                 /\ j = 1
                 /\ sockets'[ClientSocket].sent = Tail(sockets[ClientSocket].sent)
                 /\ client.session # {}
                 /\ client.activeSessionCode # {}}}

(***************************************************************************)
(* C26: on a client, after every step the stored analytics are the         *)
(* analytics of the stored snapshot; selecting a mode makes it the active  *)
(* view mode, also while the graph is empty, and changes neither the       *)
(* stored snapshot nor the stored analytics; nothing but a selection       *)
(* changes the active view mode; and a snapshot handed to renderGraph is   *)
(* stored and laid out in the active view mode.                            *)
(***************************************************************************)
C26_AnalyticsAndModeFollow ==
    [][/\ client'.metrics = buildMetrics(client'.graph)
       /\ \A mode \in ViewModes :
             LET switched == applyViewMode(client, mode)
             IN  /\ switched.activeView = mode
                 /\ switched.graph = client.graph
                 /\ switched.metrics = client.metrics
       /\ client'.activeView # client.activeView
             => /\ client' = applyViewMode(client, client'.activeView)
                /\ client'.graph = client.graph
                /\ client'.metrics = client.metrics
       /\ \A graph \in ReceivedNow :
             /\ client'.graph = graph
             /\ client'.activeView = client.activeView
             /\ client'.layout = LaidOut(graph, client.activeView)
      ]_vars

\* the browser holds a snapshot of two edges of the created session, with
\* its analytics, laid out in the Hierarchical mode
C26_SecondSnapshotInHierarchy ==
    /\ client.activeView = "hierarchy"
    /\ Len(client.graph.edges) = 2
    /\ client.inbox = <<>>
    /\ client.metrics = buildMetrics(client.graph)
    /\ client.layout # EmptyMap
    /\ client.layout = computeHierarchyLayout(client.graph.nodes, client.metrics)

\* the snapshots the server can hand out in the current state: those of the
\* stored scopes, and the one the last response carries
ServedSnapshots ==
    UNION {getGraph(edges, scope) : scope \in sessions} \cup res.graph

\* both ends of every edge are in canonical form and differ, and no two node
\* ids have the same canonical form
CanonicalSnapshot(graph) ==
    /\ \A i \in 1..Len(graph.edges) :
          /\ Canonical(graph.edges[i].from) = graph.edges[i].from
          /\ Canonical(graph.edges[i].to) = graph.edges[i].to
          /\ graph.edges[i].from # graph.edges[i].to
    /\ \A i, j \in 1..Len(graph.nodes) :
          Canonical(graph.nodes[i]) = Canonical(graph.nodes[j]) => i = j

(***************************************************************************)
(* C31: every edge of every snapshot joins two distinct concepts in        *)
(* canonical form (trimmed, lower-cased): no edge is a self-loop, and no   *)
(* snapshot holds two node ids with the same canonical form, whatever      *)
(* casing or white space the submissions used.                             *)
(***************************************************************************)
C31_SnapshotsCanonical == \A graph \in ServedSnapshots : CanonicalSnapshot(graph)

\* a submit that typed " Trust " was recorded in the created session, and
\* the snapshot it answered with has the node "trust"
C31_SpacedCapitalRecorded ==
    /\ req.op = "submit"
    /\ res.status = "ok"
    /\ HasBoth(req.body)
    /\ TrustSpaced \in {req.body.source, req.body.target}
    /\ validateSessionCode(req.code).value = NewCode
    /\ \E graph \in res.graph : Trust \in Range(graph.nodes)

Conflict == <<99, 111, 110, 102, 108, 105, 99, 116>>

\* the analytics of two snapshots agree: the same degree and neighbours for
\* every node, the same hub, the same level for every node
SameAnalytics(before, after) ==
    LET old == buildMetrics(before)
        new == buildMetrics(after)
    IN  /\ Range(before.nodes) = Range(after.nodes)
        /\ \A n \in Range(before.nodes) :
              /\ old.degrees[n] = new.degrees[n]
              /\ Range(old.adjacency[n]) = Range(new.adjacency[n])
              /\ levelOf(old.distances, n) = levelOf(new.distances, n)
        /\ old.hubId = new.hubId

(***************************************************************************)
(* C32: a recorded submission that only raises the weight of an edge the   *)
(* scope already has leaves the degree, the neighbours, the hub and the    *)
(* level of every node, as the client computes them from the new snapshot, *)
(* the same as those it computes from the previous snapshot.               *)
(***************************************************************************)
C32_WeightOnlyKeepsAnalytics ==
    [][(/\ req'.op = "submit"
        /\ res'.status = "ok"
        /\ EdgeKeysOf(edges', validateSessionCode(req'.code).value)
              = EdgeKeysOf(edges, validateSessionCode(req'.code).value))
       => \A before \in getGraph(edges, validateSessionCode(req'.code).value),
             after \in res'.graph : SameAnalytics(before, after)
      ]_vars

(***************************************************************************)
(* C33: after any sequence of session:join and session:leave events a      *)
(* connection is a member of at most one session room, and the             *)
(* graph:update of a recorded submit to scope S goes only to connections   *)
(* that are members of the room of S when the submit is served.            *)
(***************************************************************************)
C33_OneRoomAndPushToMembers ==
    [][/\ \A k \in Sockets : Cardinality(sockets'[k].rooms) <= 1
       /\ \A scope \in sessions :
             RecordedIn(scope)
             => \A k \in Sockets :
                   sockets'[k].sent # sockets[k].sent
                   => (/\ scope \in sockets[k].rooms
                       /\ sockets'[k].rooms = {scope})]_vars

\* the first connection has just joined the created session and is in that
\* room alone, while the second connection is in the demo room
C33_JoinedCreatedSessionOnly ==
    /\ req.op = "session:join"
    /\ req.sessionId = "k1"
    /\ validateSessionCode(req.code).value = NewCode
    /\ sockets["k1"].rooms = {NewCode}
    /\ sockets["k1"].sent # <<>>
    /\ sockets["k2"].rooms = {DEFAULT_SESSION_CODE}

\* the graph can be a snapshot of the scope, taken now or earlier: each of
\* its edges is a row of the scope with at most the row's weight, and a
\* snapshot of the demo room has the seeded rows
SnapshotOfScope(graph, scope) ==
    /\ \A i \in 1..Len(graph.edges) :
          \E e \in edges :
             /\ e.session_code = scope
             /\ e.concept_a = graph.edges[i].from
             /\ e.concept_b = graph.edges[i].to
             /\ graph.edges[i].weight <= e.weight
    /\ scope = DEFAULT_SESSION_CODE => Len(graph.edges) >= Len(samples)

(***************************************************************************)
(* C34: the client never renders a snapshot of a scope other than its      *)
(* active session: once it has moved from one session to another, to the   *)
(* example view or to the landing page, a graph:update of the session it   *)
(* has left that was in flight is not rendered.                            *)
(***************************************************************************)
C34_RendersActiveSessionOnly ==
    [][client'.graph # client.graph
       => \A scope \in client'.session : SnapshotOfScope(client'.graph, scope)]_vars

\* the browser is joined to the scope and nothing is on its way to it or
\* from it: no response awaited, no graph:update in flight, no socket event
\* of its own that the server has still to handle
Settled(scope) ==
    /\ client.session = {scope}
    /\ ~client.isExample
    /\ client.activeSessionCode = {scope}
    /\ scope \in sockets[ClientSocket].rooms
    /\ client.inbox = <<>>
    /\ sockets[ClientSocket].sent = <<>>
    /\ sockets[ClientSocket].events = <<>>

(***************************************************************************)
(* C35: once submissions to a scope stop, a client that stays joined to    *)
(* the scope eventually displays its latest snapshot and keeps displaying  *)
(* it, under every delivery order of the submit responses and the pushed   *)
(* graph:update events.  Nothing reaches a joined client any more once     *)
(* every response and every event has been delivered, so that the client   *)
(* must display the latest snapshot in every such state.                   *)
(***************************************************************************)
C35_SettledClientShowsLatest ==
    \A scope \in sessions :
       Settled(scope) => client.graph \in getGraph(edges, scope)

\* request r takes a session code that is not well formed or that the
\* sessions table Sess does not hold
NamesNoSession(r, Sess) ==
    /\ r.op \in {"submit", "graph", "session:join"}
    /\ \/ ~validateSessionCode(r.code).ok
       \/ validateSessionCode(r.code).value \notin Sess

\* this step is no request at all: a consumer takes the oldest graph:update
\* event in flight to it
Delivered ==
    /\ req' = req
    /\ res' = res
    /\ \E k \in Sockets :
          /\ sockets[k].sent # <<>>
          /\ sockets' = [sockets EXCEPT ![k].sent = Tail(@)]

(***************************************************************************)
(* C36: a submit, a graph read or a session:join whose session code is     *)
(* invalid or not in the sessions table is refused (an error response; no  *)
(* response and no effect for the socket event) and changes nothing: no    *)
(* session, no edge, no submission record, no room joined or left and no   *)
(* snapshot pushed; and only session creation adds a session to the one    *)
(* seeded at start-up.                                                     *)
(***************************************************************************)
C36_UnknownCodeRefused ==
    [][/\ (NamesNoSession(req', sessions) /\ ~Delivered)
          => /\ sessions' = sessions
             /\ edges' = edges
             /\ session_edges' = session_edges
             /\ emitted' = {}
             /\ \A k \in Sockets :
                   /\ sockets'[k].rooms = sockets[k].rooms
                   /\ sockets'[k].sent = sockets[k].sent
             /\ res'.graph = {}
             /\ IF req'.op = "session:join" THEN res' = NoResponse
                ELSE res'.http = (IF validateSessionCode(req'.code).ok THEN 404 ELSE 400)
       /\ sessions' # sessions => req'.op = "create"]_vars

\* the first connection, in the demo room, has asked to join the session
\* that is not created yet: it is still in the demo room, with nothing
\* pushed to it
C36_JoinOfMissingSessionIgnored ==
    /\ req.op = "session:join"
    /\ req.sessionId = "k1"
    /\ req.code = NewCode
    /\ NewCode \notin sessions
    /\ sockets["k1"].rooms = {DEFAULT_SESSION_CODE}
    /\ sockets["k1"].sent = <<>>
    /\ emitted = {}

====
